---- MODULE Spec2Model ----
(***************************************************************************)
(* Model of the oracle-service crate: the OracleHealth record, the         *)
(* PriceAggregator, the Redis-backed PriceCache and the OracleManager's    *)
(* polling loops (start / stop / price_fetch_loop).                        *)
(*                                                                         *)
(* The f64 arithmetic of the aggregator is IEEE-754 binary64, every        *)
(* operation rounded to nearest, ties to even; the `as i64` and `as u64`   *)
(* casts truncate toward zero.  Every await of the manager and of the      *)
(* cache is one atomic step of the task that performs it.                  *)
(***************************************************************************)
EXTENDS Integers, Sequences, FiniteSets, TLC

(***************************************************************************)
(* Bounds of the model.                                                    *)
(***************************************************************************)
\* number of calls of OracleManager::start that the environment can make
MaxStarts == 2
\* number of ticks the polling loops begin, all loops together
MaxTicks == 2
\* number of OracleHealth::update calls in the stand-alone health record
MaxUpdates == 7
\* number of calls the clients of the cache and of the manager make
MaxOps == 2
\* messages sent on the broadcast channel
MaxSent == 4
\* slots of the broadcast channel (websocket.rs:166 asks for 1000)
ChannelCapacity == 2
\* seconds the wall clock advances in all
MaxElapsed == 600
\* largest limit passed to get_price_history
MaxLimit == 3

(***************************************************************************)
(* Program constants.                                                      *)
(***************************************************************************)
\* cache.rs:24  cache_ttl: 300
cache_ttl == 300
\* aggregator.rs:20  min_sources: 1
min_sources == 1
\* types.rs:81  consecutive_failures >= 3
UnhealthyThreshold == 3
\* pyth.rs:130 / switchboard.rs:76  maximum age of a source reading
MaxPriceAge_Exclusive == 5 * 60 - 1

MaxPriceAge == 300

\* cache.rs:42  "Keep only last 1000 entries in history"
HistoryCap == 1000
\* cache.rs:43  zremrangebyrank(&history_key, 0, -1001)
HistoryTrimStop_OffByOne == -HistoryCap

HistoryTrimStop == -1001

\* aggregator.rs:53  expo: -8
OutputExpo == -8
\* manager.rs:153  is_fresh(Duration::from_secs(5))
FreshnessSecs == 5

\* lib.rs:92  the configured symbols (names only)
Symbols == {"BTC/USD", "ETH/USD"}

\* lib.rs:97  Symbol.max_staleness of a configured symbol, in seconds
max_staleness(symbol) == 60

\* the symbols for which Redis can hold keys: the configured ones and one
\* that has no Symbol in the configuration
Keys == Symbols \cup {"DOGE/USD"}

\* wall time, in seconds, at which the manager is constructed
NowInit == 1000

(***************************************************************************)
(* f64 arithmetic: IEEE-754 binary64 with round-to-nearest-even, on the    *)
(* non-negative values of the normal range, which is where the aggregator  *)
(* computes.  A natural number of any size is the sequence of its digits   *)
(* in base 2^15, the least significant first, without leading zeros; a     *)
(* float is <<m, e>>, worth m * 2^e, with m odd (<<<<>>, 0>> is 0.0).       *)
(***************************************************************************)
Abs(x) == IF x < 0 THEN -x ELSE x

Pow10[k \in Nat] == IF k = 0 THEN 1 ELSE 10 * Pow10[k - 1]

\* the base of the digits
Limb == 2^15

BNorm[a \in Seq(Nat)] ==
    IF a = <<>> THEN <<>>
    ELSE IF a[Len(a)] = 0 THEN BNorm[SubSeq(a, 1, Len(a) - 1)] ELSE a

BNat[n \in Nat] == IF n = 0 THEN <<>> ELSE <<n % Limb>> \o BNat[n \div Limb]

\* the value of a number below 2^31
BInt[a \in Seq(Nat)] == IF a = <<>> THEN 0 ELSE Head(a) + Limb * BInt[Tail(a)]

BAddC[a \in Seq(Nat), b \in Seq(Nat), c \in Nat] ==
    IF a = <<>> /\ b = <<>> THEN (IF c = 0 THEN <<>> ELSE <<c>>)
    ELSE LET x == (IF a = <<>> THEN 0 ELSE Head(a)) + (IF b = <<>> THEN 0 ELSE Head(b)) + c
         IN  <<x % Limb>> \o BAddC[IF a = <<>> THEN <<>> ELSE Tail(a),
                                   IF b = <<>> THEN <<>> ELSE Tail(b), x \div Limb]

BAdd(a, b) == BAddC[a, b, 0]

\* a - b for a >= b: digit by digit with the borrow c, then normalised
BSub(a, b) ==
    LET BSubC[u \in Seq(Nat), v \in Seq(Nat), c \in Nat] ==
            IF u = <<>> THEN <<>>
            ELSE LET x == Head(u) - (IF v = <<>> THEN 0 ELSE Head(v)) - c
                 IN  <<(x + Limb) % Limb>>
                     \o BSubC[Tail(u), IF v = <<>> THEN <<>> ELSE Tail(v),
                              IF x < 0 THEN 1 ELSE 0]
    IN  BNorm[BSubC[a, b, 0]]

\* a < b, decided at the most significant digit that differs
BLess(a, b) ==
    LET BLessFrom[i \in Nat] ==
            IF i = 0 THEN FALSE
            ELSE IF a[i] # b[i] THEN a[i] < b[i]
            ELSE BLessFrom[i - 1]
    IN  IF Len(a) # Len(b) THEN Len(a) < Len(b) ELSE BLessFrom[Len(a)]

\* a * k for k < 2^15, digit by digit with the carry c
BMulSmall(a, k) ==
    LET BMulC[u \in Seq(Nat), c \in Nat] ==
            IF u = <<>> THEN (IF c = 0 THEN <<>> ELSE <<c>>)
            ELSE LET x == Head(u) * k + c
                 IN  <<x % Limb>> \o BMulC[Tail(u), x \div Limb]
    IN  IF k = 0 THEN <<>> ELSE BMulC[a, 0]

BMul[a \in Seq(Nat), b \in Seq(Nat)] ==
    IF a = <<>> \/ b = <<>> THEN <<>>
    ELSE BAdd(BMulSmall(a, Head(b)),
              LET rest == BMul[a, Tail(b)] IN IF rest = <<>> THEN <<>> ELSE <<0>> \o rest)

Pow2[k \in Nat] == IF k = 0 THEN 1 ELSE 2 * Pow2[k - 1]

BShl(a, k) ==
    IF a = <<>> THEN <<>>
    ELSE [i \in 1..(k \div 15) |-> 0] \o BMulSmall(a, Pow2[k % 15])

\* floor(a / 2^k): whole digits dropped, then a division by d = 2^(k mod 15)
\* from the most significant digit down, with the remainder r
BShr(a, k) ==
    LET d == Pow2[k % 15]
        BDivC[u \in Seq(Nat), r \in Nat] ==
            IF u = <<>> THEN <<>>
            ELSE LET x == r * Limb + u[Len(u)]
                 IN  BDivC[SubSeq(u, 1, Len(u) - 1), x % d] \o <<x \div d>>
    IN  IF k \div 15 >= Len(a) THEN <<>>
        ELSE BNorm[BDivC[SubSeq(a, k \div 15 + 1, Len(a)), 0]]

BitLenSmall[n \in Nat] == IF n = 0 THEN 0 ELSE 1 + BitLenSmall[n \div 2]

BitLen(a) == IF a = <<>> THEN 0 ELSE 15 * (Len(a) - 1) + BitLenSmall[a[Len(a)]]

BOdd(a) == a # <<>> /\ Head(a) % 2 = 1

\* one digit of a long division: the largest q with q * b <= r, found from
\* the two leading digits of r and the leading digit of b (which is at least
\* 2^14, and r < 2^15 * b) and lowered while it is too large
BDigit(r, b) ==
    LET BDigitDown[q \in Nat] ==
            IF BLess(r, BMulSmall(b, q)) THEN BDigitDown[q - 1] ELSE q
        top == (IF Len(r) > Len(b) THEN r[Len(b) + 1] * Limb ELSE 0) + r[Len(b)]
        capped(est) == IF est > Limb - 1 THEN Limb - 1 ELSE est
    IN  IF Len(r) < Len(b) THEN 0 ELSE BDigitDown[capped(top \div b[Len(b)])]

\* <<floor(a / b), a mod b>> for the digits a[1..i] still to bring down, with
\* the digits of the quotient so far in q and the remainder so far in r
BDivDigits[a \in Seq(Nat), b \in Seq(Nat), i \in Nat, q \in Seq(Nat), r \in Seq(Nat)] ==
    IF i = 0 THEN <<BNorm[q], r>>
    ELSE LET r2 == BNorm[<<a[i]>> \o r]
             d == BDigit(r2, b)
         IN  BDivDigits[a, b, i - 1, <<d>> \o q, BSub(r2, BMulSmall(b, d))]

\* <<floor(a / b), (a mod b) * 2^k>> for b > 0, k the shift that brings the
\* leading digit of b to 2^14 or more
BDivMod(a, b) ==
    LET k == 15 - BitLenSmall[b[Len(b)]]
        x == BShl(a, k)
    IN  BDivDigits[x, BShl(b, k), Len(x), <<>>, <<>>]

\* floor(sqrt(a)): one bit of the root s at a time, from bit i down
BSqrt(a) ==
    LET BSqrtBits[i \in Int, s \in Seq(Nat)] ==
            IF i < 0 THEN s
            ELSE LET c == BAdd(s, BShl(<<1>>, i))
                 IN  BSqrtBits[i - 1, IF BLess(a, BMul[c, c]) THEN s ELSE c]
    IN  BSqrtBits[(BitLen(a) + 1) \div 2, <<>>]

FZero == << <<>>, 0 >>

\* m * 2^e with the trailing zero bits of m moved into e
FCanon[m \in Seq(Nat), e \in Int] ==
    IF m = <<>> THEN FZero
    ELSE IF Head(m) = 0 THEN FCanon[Tail(m), e + 15]
    ELSE IF Head(m) % 2 = 0 THEN FCanon[BShr(m, 1), e + 1]
    ELSE <<m, e>>

\* q * 2^e, q with a remainder when rest, rounded to 53 bits, ties to even
FRoundBits(q, rest, e) ==
    LET drop == BitLen(q) - 53
        m0 == BShr(q, drop)
        low == BSub(q, BShl(m0, drop))
        half == BShl(<<1>>, drop - 1)
        up == \/ BLess(half, low)
              \/ low = half /\ (rest \/ BOdd(m0))
    IN  FCanon[IF drop <= 0 THEN q ELSE IF up THEN BAdd(m0, <<1>>) ELSE m0,
               IF drop <= 0 THEN e ELSE e + drop]

\* FRoundBits for the quotient and remainder qr of a division
FRoundQuotient(qr, e) == FRoundBits(qr[1], qr[2] # <<>>, e)

\* the binary64 nearest to n / d * 2^e (ties to even), for a result in the
\* normal range
FRound(n, d, e) ==
    LET s == 55 + BitLen(d) - BitLen(n)
    IN  IF n = <<>> THEN FZero
        ELSE FRoundQuotient(BDivMod(IF s >= 0 THEN BShl(n, s) ELSE n,
                                    IF s >= 0 THEN d ELSE BShl(d, -s)),
                            e - s)

FInt(n) == FCanon[BNat[n], 0]

\* the literal n/d of the source text
FLit(n, d) == FRound(BNat[n], BNat[d], 0)

FMul(a, b) == FRoundBits(BMul[a[1], b[1]], FALSE, a[2] + b[2])

FDiv(a, b) == FRound(a[1], b[1], a[2] - b[2])

FMin(x, y) == IF x < y THEN x ELSE y

FAdd(a, b) ==
    LET e == FMin(a[2], b[2])
    IN  FRoundBits(BAdd(BShl(a[1], a[2] - e), BShl(b[1], b[2] - e)), FALSE, e)

FLess(a, b) ==
    LET e == FMin(a[2], b[2])
    IN  BLess(BShl(a[1], a[2] - e), BShl(b[1], b[2] - e))

\* (a - b).abs()
FAbsDiff(a, b) ==
    LET e == FMin(a[2], b[2])
        x == BShl(a[1], a[2] - e)
        y == BShl(b[1], b[2] - e)
    IN  FRoundBits(IF BLess(x, y) THEN BSub(y, x) ELSE BSub(x, y), FALSE, e)

FSqrt(a) ==
    LET k0 == IF BitLen(a[1]) < 112 THEN 112 - BitLen(a[1]) ELSE 0
        k == IF (a[2] - k0) % 2 = 0 THEN k0 ELSE k0 + 1
        x == BShl(a[1], k)
        s == BSqrt(x)
    IN  IF a = FZero THEN FZero
        ELSE FRoundBits(BAddC[s, s, IF BMul[s, s] = x THEN 0 ELSE 1], FALSE,
                        (a[2] - k) \div 2 - 1)

\* `x as i64` / `x as u64`: truncation, for a value below 2^31
FTrunc(a) == BInt[IF a[2] >= 0 THEN BShl(a[1], a[2]) ELSE BShr(a[1], -a[2])]

\* 10_f64.powi(k) for 0 <= k <= 22, where it is exact
FPow10(k) ==
    LET BPow10[i \in Nat] == IF i = 0 THEN <<1>> ELSE BMulSmall(BPow10[i - 1], 10)
    IN  FCanon[BPow10[k], 0]

(***************************************************************************)
(* types.rs: PriceData, PriceSource, OracleHealth.                         *)
(***************************************************************************)
PriceSource == {"Pyth", "Switchboard", "Aggregated", "Internal"}

PriceData(price, confidence, expo, timestamp, source, symbol) ==
    [price |-> price, confidence |-> confidence, expo |-> expo,
     timestamp |-> timestamp, source |-> source, symbol |-> symbol]

\* impl Default for OracleHealth, constructed at time t
OracleHealthDefault(t) ==
    [is_healthy |-> TRUE, last_update |-> t, consecutive_failures |-> 0,
     total_requests |-> 0, successful_requests |-> 0, last_error |-> "None"]

\* the test `self.consecutive_failures >= 3` of OracleHealth::update
MarksUnhealthy_Late(failures) == failures > UnhealthyThreshold

MarksUnhealthy(failures) == failures >= UnhealthyThreshold

\* update with a success that leaves is_healthy as it was
update_StickyUnhealthy(h, success, t) ==
    IF success
    THEN [h EXCEPT !.last_update = t,
                   !.total_requests = @ + 1,
                   !.successful_requests = @ + 1,
                   !.consecutive_failures = 0,
                   !.last_error = "None"]
    ELSE [h EXCEPT !.last_update = t,
                   !.total_requests = @ + 1,
                   !.consecutive_failures = @ + 1,
                   !.is_healthy = IF MarksUnhealthy(h.consecutive_failures + 1)
                                  THEN FALSE ELSE @]

\* update with total_requests counted only on the success path
update_CountSuccessOnly(h, success, t) ==
    IF success
    THEN [h EXCEPT !.last_update = t,
                   !.total_requests = @ + 1,
                   !.successful_requests = @ + 1,
                   !.consecutive_failures = 0,
                   !.is_healthy = TRUE,
                   !.last_error = "None"]
    ELSE [h EXCEPT !.last_update = t,
                   !.consecutive_failures = @ + 1,
                   !.is_healthy = IF MarksUnhealthy(h.consecutive_failures + 1)
                                  THEN FALSE ELSE @]

\* OracleHealth::update(&mut self, success) called at time t
update(h, success, t) ==
    IF success
    THEN [h EXCEPT !.last_update = t,
                   !.total_requests = @ + 1,
                   !.successful_requests = @ + 1,
                   !.consecutive_failures = 0,
                   !.is_healthy = TRUE,
                   !.last_error = "None"]
    ELSE [h EXCEPT !.last_update = t,
                   !.total_requests = @ + 1,
                   !.consecutive_failures = @ + 1,
                   !.is_healthy = IF MarksUnhealthy(h.consecutive_failures + 1)
                                  THEN FALSE ELSE @]

(***************************************************************************)
(* serde_json wire form of a PriceData: the object's members in            *)
(* declaration order, the enum as its variant name.                        *)
(***************************************************************************)
to_string(p) ==
    << <<"price", p.price>>, <<"confidence", p.confidence>>, <<"expo", p.expo>>,
       <<"timestamp", p.timestamp>>, <<"source", p.source>>, <<"symbol", p.symbol>> >>

JsonField(json, key) ==
    LET i == CHOOSE j \in 1..Len(json) : json[j][1] = key IN json[i][2]

\* serde_json::from_str::<PriceData>
from_str_SkipSymbol(json) ==
    PriceData(JsonField(json, "price"), JsonField(json, "confidence"),
              JsonField(json, "expo"), JsonField(json, "timestamp"),
              JsonField(json, "source"), "")

from_str(json) ==
    PriceData(JsonField(json, "price"), JsonField(json, "confidence"),
              JsonField(json, "expo"), JsonField(json, "timestamp"),
              JsonField(json, "source"), JsonField(json, "symbol"))

(***************************************************************************)
(* aggregator.rs: PriceAggregator.  Results of fallible functions are      *)
(* records [ok |-> TRUE, value |-> v] or [ok |-> FALSE, err |-> e].        *)
(* The operators are defined for readings with 0 < price < 2^31 and        *)
(* confidence < 2^31; `readings` is a slice of PriceData, `values` a slice *)
(* of f64.                                                                 *)
(***************************************************************************)
Ok(v) == [ok |-> TRUE, value |-> v]

Err(e) == [ok |-> FALSE, err |-> e]

Floats == Seq(Nat) \X Int

\* Iterator::sum of f64: a fold with + from 0.0
FSum[vs \in Seq(Floats)] ==
    IF vs = <<>> THEN FZero ELSE FAdd(FSum[SubSeq(vs, 1, Len(vs) - 1)], vs[Len(vs)])

InsertSorted[x \in Floats, vs \in Seq(Floats)] ==
    IF vs = <<>> THEN <<x>>
    ELSE IF ~FLess(Head(vs), x) THEN <<x>> \o vs
    ELSE <<Head(vs)>> \o InsertSorted[x, Tail(vs)]

\* values.sort_by(partial_cmp)
SortF[vs \in Seq(Floats)] ==
    IF vs = <<>> THEN <<>> ELSE InsertSorted[Head(vs), SortF[Tail(vs)]]

MaxOf(S) == CHOOSE x \in S : \A y \in S : y <= x

\* PriceAggregator::normalize_price: price as f64 / 10_f64.powi(-expo)
normalize_price(p) == FDiv(FInt(p.price), FPow10(-p.expo))

\* PriceAggregator::calculate_median
calculate_median(values) ==
    LET sorted == SortF[values]
        len == Len(sorted)
    IN  IF len = 0 THEN FZero
        ELSE IF len % 2 = 0
             THEN FDiv(FAdd(sorted[len \div 2], sorted[len \div 2 + 1]), FInt(2))
             ELSE sorted[len \div 2 + 1]

\* the score without the constant 0.6745
modified_z_score_Unscaled(price, median, mad) ==
    IF FLess(FZero, mad) THEN FDiv(FAbsDiff(price, median), mad) ELSE FZero

\* the score without the test `mad > 0.0`: a division by 0.0 gives inf or
\* NaN, which fail `<= 2.5` as any number above 2.5 does
modified_z_score_Unguarded(price, median, mad) ==
    IF FLess(FZero, mad)
    THEN FDiv(FMul(FLit(6745, 10000), FAbsDiff(price, median)), mad)
    ELSE FInt(3)

\* the modified z-score computed inside PriceAggregator::filter_outliers:
\* 0.6745 * (price - median).abs() / mad
modified_z_score(price, median, mad) ==
    IF FLess(FZero, mad)
    THEN FDiv(FMul(FLit(6745, 10000), FAbsDiff(price, median)), mad)
    ELSE FZero

\* the filter of PriceAggregator::filter_outliers (lines 97-116), once
\* `median` and `mad` are bound: keeps modified_z_score <= 2.5
retain_inliers(values, original_data, median, mad) ==
    LET kept == SelectSeq([i \in 1..Len(values) |-> i],
                          LAMBDA i : ~FLess(FLit(5, 2),
                                            modified_z_score(values[i], median, mad)))
    IN  IF kept = <<>> THEN Err("All prices were filtered as outliers")
        ELSE Ok([k \in 1..Len(kept) |-> original_data[kept[k]]])

\* PriceAggregator::filter_outliers
filter_outliers(values, original_data) ==
    LET median == calculate_median(values)
    IN  IF Len(values) <= 2 THEN Ok(original_data)
        ELSE retain_inliers(values, original_data, median,
                            calculate_median([i \in 1..Len(values) |->
                                                 FAbsDiff(values[i], median)]))

\* the weight of one reading in PriceAggregator::confidence_weighted_average:
\* 1.0 / (1.0 + confidence_ratio * 10.0), with
\* confidence_ratio = price.confidence as f64 / price.price as f64
confidence_weight(p) ==
    FDiv(FInt(1), FAdd(FInt(1), FMul(FDiv(FInt(p.confidence), FInt(p.price)), FInt(10))))

\* the end of PriceAggregator::confidence_weighted_average (lines 166-170)
weighted_average(weighted_sum, total_weight) ==
    IF total_weight = FZero THEN Err("Zero total weight in confidence calculation")
    ELSE Ok(FDiv(weighted_sum, total_weight))

\* PriceAggregator::confidence_weighted_average
confidence_weighted_average(readings) ==
    LET weight == [i \in 1..Len(readings) |-> confidence_weight(readings[i])]
    IN  weighted_average(
            FSum[[i \in 1..Len(readings) |-> FMul(normalize_price(readings[i]), weight[i])]],
            FSum[weight])

\* PriceAggregator::volume_weighted_average: the plain mean, None when empty
volume_weighted_average(readings) ==
    IF readings = <<>> THEN Err("None")
    ELSE Ok(FDiv(FSum[[i \in 1..Len(readings) |-> normalize_price(readings[i])]],
                 FInt(Len(readings))))

\* the end of PriceAggregator::calculate_consensus (lines 133-146):
\* median_price * 0.5 + weighted_avg * 0.3 + volume_weighted * 0.2
combine_methods(median_price, weighted_avg, volume) ==
    IF ~weighted_avg.ok THEN weighted_avg
    ELSE Ok(FAdd(FAdd(FMul(median_price, FLit(1, 2)),
                      FMul(weighted_avg.value, FLit(3, 10))),
                 FMul(IF volume.ok THEN volume.value ELSE median_price, FLit(2, 10))))

\* PriceAggregator::calculate_consensus
calculate_consensus(readings) ==
    IF readings = <<>> THEN Err("No valid prices for consensus calculation")
    ELSE combine_methods(
             calculate_median([i \in 1..Len(readings) |-> normalize_price(readings[i])]),
             confidence_weighted_average(readings),
             volume_weighted_average(readings))

\* `conf_ratio * conf_ratio` of PriceAggregator::calculate_confidence
squared_confidence_ratio(p) ==
    LET conf_ratio == FDiv(FInt(p.confidence), FInt(p.price))
    IN  FMul(conf_ratio, conf_ratio)

\* PriceAggregator::calculate_confidence (readings non-empty):
\* (rms_confidence * combined_price * 10_f64.powi(8)) as u64, with
\* rms_confidence = (confidence_sum / len).sqrt() and combined_price the mean
calculate_confidence(readings) ==
    FTrunc(FMul(FMul(FSqrt(FDiv(FSum[[i \in 1..Len(readings) |->
                                         squared_confidence_ratio(readings[i])]],
                                FInt(Len(readings)))),
                     FDiv(FSum[[i \in 1..Len(readings) |-> normalize_price(readings[i])]],
                          FInt(Len(readings)))),
                FPow10(8)))

\* the readings that PriceAggregator::aggregate_prices passes on from
\* filter_outliers to calculate_consensus and calculate_confidence
filtered_prices(readings) ==
    filter_outliers([i \in 1..Len(readings) |-> normalize_price(readings[i])], readings)

\* lines 50-52 of aggregate_prices: the price and the confidence of the
\* aggregate of the filtered readings, or the error of `?`
scaled_values(consensus_price, filtered) ==
    IF ~consensus_price.ok THEN consensus_price
    ELSE Ok([price |-> FTrunc(FMul(consensus_price.value, FPow10(8))),
             confidence |-> calculate_confidence(filtered)])

\* lines 38-52 of aggregate_prices, from the Result of filter_outliers
consensus_of(filtered) ==
    IF ~filtered.ok THEN filtered
    ELSE scaled_values(calculate_consensus(filtered.value), filtered.value)

\* the arithmetic of PriceAggregator::aggregate_prices (lines 32-52)
consensus_values(readings) == consensus_of(filtered_prices(readings))

(***************************************************************************)
(* aggregator.rs: PriceAggregator::detect_manipulation, for readings and a *)
(* reference above zero.                                                   *)
(***************************************************************************)
\* `(price - historical_avg).abs() / historical_avg`
deviation(price, historical_avg) ==
    FDiv(FAbsDiff(price, historical_avg), historical_avg)

\* the alerts with `deviation >= 0.1`
flash_crash_alerts_Inclusive(readings, historical_avg) ==
    LET flagged == SelectSeq([i \in 1..Len(readings) |-> i],
                             LAMBDA i : ~FLess(deviation(normalize_price(readings[i]),
                                                         historical_avg),
                                               FLit(1, 10)))
    IN  [k \in 1..Len(flagged) |->
            [alert_type |-> "FlashCrash",
             source |-> readings[flagged[k]].source,
             deviation |-> deviation(normalize_price(readings[flagged[k]]), historical_avg),
             price |-> normalize_price(readings[flagged[k]]),
             expected |-> historical_avg]]

\* lines 216-229: one FlashCrash alert for each reading with `deviation > 0.1`
flash_crash_alerts(readings, historical_avg) ==
    LET flagged == SelectSeq([i \in 1..Len(readings) |-> i],
                             LAMBDA i : FLess(FLit(1, 10),
                                              deviation(normalize_price(readings[i]),
                                                        historical_avg)))
    IN  [k \in 1..Len(flagged) |->
            [alert_type |-> "FlashCrash",
             source |-> readings[flagged[k]].source,
             deviation |-> deviation(normalize_price(readings[flagged[k]]), historical_avg),
             price |-> normalize_price(readings[flagged[k]]),
             expected |-> historical_avg]]

\* statrs Statistics::mean of a Vec<f64>: `mean += (x - mean) / i` for each
\* x in turn, i counting from 1.0
statrs_mean(values) ==
    LET step(mean, x, i) ==
            IF FLess(x, mean) THEN FAbsDiff(mean, FDiv(FAbsDiff(x, mean), i))
            ELSE FAdd(mean, FDiv(FAbsDiff(x, mean), i))
        mean_of[n \in 0..Len(values)] ==
            IF n = 0 THEN FZero ELSE step(mean_of[n - 1], values[n], FInt(n))
    IN  mean_of[Len(values)]

\* statrs Statistics::variance of a Vec<f64> with two values or more, the
\* sample variance: with `sum` the sum so far and `diff = i * x - sum`,
\* `variance += diff * diff / (i * (i - 1.0))`, at last divided by i - 1.0
statrs_variance(values) ==
    LET step(acc, x, n) ==
            <<FAdd(acc[1], x),
              FAdd(acc[2], FDiv(FMul(FAbsDiff(FMul(FInt(n), x), FAdd(acc[1], x)),
                                     FAbsDiff(FMul(FInt(n), x), FAdd(acc[1], x))),
                                FInt(n * (n - 1))))>>
        sums[n \in 1..Len(values)] ==
            IF n = 1 THEN <<values[1], FZero>> ELSE step(sums[n - 1], values[n], n)
    IN  FDiv(sums[Len(values)][2], FInt(Len(values) - 1))

\* lines 232-245, once the variance and the mean are bound: a
\* SuspiciousConsensus alert when the relative variance is below 0.0001
suspicious_consensus(price_variance, mean_price, historical_avg) ==
    IF FLess(FDiv(price_variance, FMul(mean_price, mean_price)), FLit(1, 10000))
    THEN <<[alert_type |-> "SuspiciousConsensus",
            source |-> "Aggregated",
            deviation |-> FDiv(FSqrt(price_variance), mean_price),
            price |-> mean_price,
            expected |-> historical_avg]>>
    ELSE <<>>

\* PriceAggregator::detect_manipulation(prices, historical_avg)
detect_manipulation(readings, historical_avg) ==
    flash_crash_alerts(readings, historical_avg)
      \o (IF Len(readings) > 1
          THEN suspicious_consensus(
                   statrs_variance([i \in 1..Len(readings) |-> normalize_price(readings[i])]),
                   statrs_mean([i \in 1..Len(readings) |-> normalize_price(readings[i])]),
                   historical_avg)
          ELSE <<>>)

(***************************************************************************)
(* clients/pyth.rs and clients/switchboard.rs.  An account is the record   *)
(* of the fields the client reads out of the account bytes; NoAccount is   *)
(* an RPC failure (or an unparsable feed id).                              *)
(***************************************************************************)
NoAccount == [len |-> 0]

\* `price > 10_000_000_00000000` (pyth.rs:141), through quotient and
\* remainder by 10^8 so that the limit is an integer of the model
PythPriceTooHigh(price) ==
    \/ price \div Pow10[8] > Pow10[7]
    \/ price \div Pow10[8] = Pow10[7] /\ price % Pow10[8] > 0

\* `price > 1_000_000_00000000` (switchboard.rs:117)
SwitchboardPriceTooHigh(price) ==
    \/ price \div Pow10[8] > Pow10[6]
    \/ price \div Pow10[8] = Pow10[6] /\ price % Pow10[8] > 0

\* PythClient::validate_price_data(price, timestamp) at wall time t
validate_price_data(price, timestamp, t) ==
    LET price_age == t - timestamp
    IN  /\ ~(price <= 0)
        /\ ~(price_age > MaxPriceAge)
        /\ ~(price_age < 0)
        /\ ~PythPriceTooHigh(price)
        /\ ~(price < 1000)

\* PythClient::get_price on the account the RPC returned, at wall time t
pyth_get_price(account, t) ==
    IF account = NoAccount THEN Err("Failed to fetch Pyth account")
    ELSE IF account.len < 240 THEN Err("insufficient data length")
    ELSE IF ~account.magic_ok THEN Err("wrong magic number")
    ELSE IF account.version < 2 THEN Err("Unsupported Pyth account version")
    ELSE IF account.status # 1 THEN Err("Price not available")
    ELSE IF ~validate_price_data(account.price, account.timestamp, t)
         THEN Err("Pyth price validation failed")
    ELSE Ok(PriceData(account.price, account.confidence, account.expo,
                      account.timestamp, "Pyth", ""))

\* SwitchboardClient::validate_result(price)
validate_result(price) ==
    /\ ~(price <= 0)
    /\ ~(price < 100)
    /\ ~SwitchboardPriceTooHigh(price)

\* the 8 bytes of the i64 n, read as a little-endian number below 2^64 and
\* written in the digits of the f64 section
I64(n) == IF n >= 0 THEN BNat[n] ELSE BSub(BShl(<<1>>, 64), BNat[-n])

\* the i64 subtraction max_response - min_response, on the bytes of the two
\* numbers, exceeds the i64 range: the sign bits differ and the sign of the
\* difference is not that of max_response
spread_overflows(min_response, max_response) ==
    LET negative(a) == ~BLess(a, BShl(<<1>>, 63))
        diff == IF BLess(max_response, min_response)
                THEN BSub(BAdd(max_response, BShl(<<1>>, 64)), min_response)
                ELSE BSub(max_response, min_response)
    IN  \/ negative(max_response) # negative(min_response)
           /\ negative(diff) # negative(max_response)
        \/ diff = BShl(<<1>>, 63)

\* `((max_response - min_response).abs() / 2) as u64` (switchboard.rs:87) in
\* a build without overflow checks: the i64 operations wrap modulo 2^64, the
\* division truncates toward zero, the cast keeps the bits.  The result is
\* an integer of the model when below 2^30 and its digits otherwise.
confidence_value(min_response, max_response) ==
    LET negative(a) == ~BLess(a, BShl(<<1>>, 63))
        wrapping_sub(a, b) ==
            IF BLess(a, b) THEN BSub(BAdd(a, BShl(<<1>>, 64)), b) ELSE BSub(a, b)
        wrapping_neg(a) == IF a = <<>> THEN <<>> ELSE BSub(BShl(<<1>>, 64), a)
        diff == wrapping_sub(max_response, min_response)
        abs == IF negative(diff) THEN wrapping_neg(diff) ELSE diff
        half == IF negative(abs) THEN wrapping_neg(BShr(wrapping_neg(abs), 1))
                ELSE BShr(abs, 1)
    IN  IF Len(half) <= 2 THEN BInt[half] ELSE half

\* SwitchboardClient::get_price on the account the RPC returned, at wall
\* time t
switchboard_get_price(account, t) ==
    IF account = NoAccount THEN Err("Failed to fetch Switchboard account")
    ELSE IF account.len < 256 THEN Err("data too short")
    ELSE IF ~account.discriminator_ok THEN Err("wrong discriminator")
    ELSE IF t - account.latest_timestamp > MaxPriceAge THEN Err("Stale Switchboard data")
    ELSE IF ~validate_result(account.mantissa) THEN Err("Switchboard price validation failed")
    ELSE Ok(PriceData(account.mantissa,
                      confidence_value(account.min_response, account.max_response),
                      -account.scale,
                      account.latest_timestamp, "Switchboard", ""))

\* the accounts the Pyth RPC can return at wall time t
PythAccounts(t) ==
    {NoAccount} \cup
    {[len |-> 240, magic_ok |-> TRUE, version |-> 2, price |-> 1000,
      confidence |-> 100, expo |-> -8, timestamp |-> ts, status |-> st] :
        ts \in {t - MaxPriceAge - 1, t - max_staleness("BTC/USD") - 1, t + 1},
        st \in {1, 2}}

\* the accounts the Switchboard RPC can return at wall time t
SwitchboardAccounts(t) ==
    {NoAccount} \cup
    {[len |-> 256, discriminator_ok |-> TRUE, mantissa |-> 2000, scale |-> 8,
      latest_timestamp |-> ts, min_response |-> I64(2000),
      max_response |-> I64(2000)] :
        ts \in {t - MaxPriceAge - 1, t}}

(***************************************************************************)
(* aggregator.rs: PriceAggregator::aggregate_prices.  The arithmetic reads *)
(* only price, confidence and expo of the readings; it is evaluated once   *)
(* for each sequence of such numbers that the clients above and the direct *)
(* callers of the aggregator produce.                                      *)
(***************************************************************************)
\* the fields of the readings that the arithmetic reads
Quotes(readings) ==
    [i \in 1..Len(readings) |->
        [price |-> readings[i].price, confidence |-> readings[i].confidence,
         expo |-> readings[i].expo]]

\* the readings the clients return for the accounts above at wall time t
SourceReadings(t) ==
    {r.value : r \in {x \in {pyth_get_price(a, t) : a \in PythAccounts(t)} \cup
                             {switchboard_get_price(a, t) : a \in SwitchboardAccounts(t)} :
                         x.ok}}

\* further readings handed to the aggregator directly: a price that
\* 10^-8 does not scale to a double exactly, and a reading at 6 decimals
DirectReadings(t) ==
    {PriceData(1015, 100, -8, t - 1, "Pyth", ""),
     PriceData(1000, 100, -6, t - 2, "Switchboard", "")}

\* the sequences of readings passed to aggregate_prices at wall time t: up to
\* three of the clients' readings and the first direct one, or one reading
AggregatorInputs(t) ==
    LET R == SourceReadings(t) \cup {PriceData(1015, 100, -8, t - 1, "Pyth", "")}
    IN  {<<>>} \cup {<<r>> : r \in R \cup DirectReadings(t)}
           \cup {<<r1, r2>> : r1 \in R, r2 \in R}
           \cup {<<r1, r2, r3>> : r1 \in R, r2 \in R, r3 \in R}

\* consensus_values for each of these sequences
ConsensusTable == {<<q, consensus_values(q)>> : q \in {Quotes(i) : i \in AggregatorInputs(NowInit)}}

\* the admission test of PriceAggregator::aggregate_prices
InsufficientSources_Two(n) == n < 2

InsufficientSources(n) == n < min_sources

\* `prices.iter().map(|p| p.timestamp).max().unwrap_or(0)`
latest_timestamp(prices) ==
    IF prices = <<>> THEN 0
    ELSE MaxOf({prices[i].timestamp : i \in 1..Len(prices)})

\* consensus_values(prices), read in the entries `known` of ConsensusTable
\* when it is there
consensus_lookup(known, prices) ==
    IF known = {} THEN consensus_values(prices) ELSE (CHOOSE entry \in known : TRUE)[2]

\* lines 47-61 of aggregate_prices: the PriceData built from the values
aggregated_price(values, prices, symbol) ==
    IF ~values.ok THEN values
    ELSE Ok(PriceData(values.value.price,
                      values.value.confidence,
                      OutputExpo,
                      latest_timestamp(prices),
                      "Aggregated",
                      symbol))

\* PriceAggregator::aggregate_prices(prices, symbol)
aggregate_prices(prices, symbol) ==
    IF InsufficientSources(Len(prices)) THEN Err("Insufficient price sources")
    ELSE aggregated_price(
             consensus_lookup({entry \in ConsensusTable : entry[1] = Quotes(prices)}, prices),
             prices, symbol)

(***************************************************************************)
(* cache.rs: the Redis keys price:<symbol> (a string with an expiry),      *)
(* history:<symbol> (a sorted set) and the channel price_updates:<symbol>. *)
(***************************************************************************)
NoEntry == [expire_at |-> 0]

\* SETEX key ttl value at time t
set_ex_DoubleTtl(value, ttl, t) == [value |-> value, expire_at |-> t + ttl + ttl]

set_ex(value, ttl, t) == [value |-> value, expire_at |-> t + ttl]

\* GET key at time t: the stored string, unless absent or expired
redis_get(entry, t) ==
    IF entry # NoEntry /\ t < entry.expire_at THEN Ok(entry.value) ELSE Err("nil")

\* the order of a sorted set: by score, equal scores by member
RECURSIVE JsonLess(_, _)
JsonLess(a, b) ==
    IF a = <<>> \/ b = <<>> THEN FALSE
    ELSE IF Head(a)[2] = Head(b)[2] THEN JsonLess(Tail(a), Tail(b))
    ELSE IF Head(a)[1] \in {"source", "symbol"} THEN FALSE
    ELSE Head(a)[2] < Head(b)[2]

ZLess(x, y) ==
    \/ x.score < y.score
    \/ x.score = y.score /\ JsonLess(x.member, y.member)

\* ZADD key score member; a sorted set is the sequence of its [member, score]
\* entries in rank order
zadd_KeepOld(zset, member, score) ==
    LET new == [member |-> member, score |-> score]
        k == Cardinality({i \in 1..Len(zset) : ZLess(zset[i], new)})
    IN  SubSeq(zset, 1, k) \o <<new>> \o SubSeq(zset, k + 1, Len(zset))

zadd(zset, member, score) ==
    LET rest == SelectSeq(zset, LAMBDA e : e.member # member)
        new == [member |-> member, score |-> score]
        k == Cardinality({i \in 1..Len(rest) : ZLess(rest[i], new)})
    IN  SubSeq(rest, 1, k) \o <<new>> \o SubSeq(rest, k + 1, Len(rest))

\* ZREMRANGEBYRANK key start stop
zremrangebyrank(zset, start, stop) ==
    LET n == Len(zset)
        first == IF start < 0 THEN (IF n + start < 0 THEN 0 ELSE n + start) ELSE start
        last == IF stop < 0 THEN n + stop ELSE (IF stop > n - 1 THEN n - 1 ELSE stop)
    IN  IF first > last THEN zset
        ELSE SubSeq(zset, 1, first) \o SubSeq(zset, last + 2, n)

\* ZREVRANGE key start stop: the members from the highest rank down
zrevrange(zset, start, stop) ==
    LET n == Len(zset)
        first == IF start < 0 THEN (IF n + start < 0 THEN 0 ELSE n + start) ELSE start
        last == IF stop < 0 THEN n + stop ELSE (IF stop > n - 1 THEN n - 1 ELSE stop)
    IN  IF first > last THEN <<>>
        ELSE [i \in 1..(last - first + 1) |-> zset[n - first - i + 1].member]

(***************************************************************************)
(* manager.rs: the state of one OracleManager and of the tasks it spawns.  *)
(***************************************************************************)
VARIABLES
    is_running,      \* OracleManager.is_running
    health_status,   \* OracleManager.health_status: symbol -> OracleHealth
    start_pc,        \* position of each call of start(): idle, joining, returned
    pc,              \* position of each spawned price_fetch_loop task
    prices,          \* the Vec `prices` of the loop's fetch_and_aggregate_price
    result,          \* the Result of the loop's fetch_and_aggregate_price
    ticks,           \* iterations the loops have begun
    price_key,       \* Redis: price:<symbol>
    history_key,     \* Redis: history:<symbol>
    published,       \* Redis: messages published on price_updates:<symbol>
    now,             \* wall clock, seconds (constant while the loops are observed)
    puts,            \* history: successful set_price calls per symbol
    health,          \* a stand-alone OracleHealth record
    calls,           \* history: the arguments of the update calls made on it
    last_op,         \* history: the last call a client made, with what it returned
    nops,            \* history: the number of calls clients have made
    channel,         \* WsState.broadcast_sender: the messages of the broadcast channel
    connection       \* the WebSocket connections and their two tasks

vars == <<is_running, health_status, start_pc, pc, prices, result, ticks,
          price_key, history_key, published, now, puts, health, calls, last_op, nops,
          channel, connection>>

wsVars == <<channel, connection>>

managerVars == <<is_running, health_status, start_pc, pc, prices, result, ticks,
                 price_key, history_key, published, now, puts>>

Starts == 1..MaxStarts

\* one task per call of start() and configured symbol
Loops == Starts \X Symbols

\* the WebSocket connections that clients open
Connections == 1..2

\* a connection that no client has opened: handle_websocket has not run.
\* next: the position of broadcast_receiver in the channel; delivered: the
\* messages written to the socket; lagged: recv has returned Lagged (history)
NoConnection ==
    [handler |-> "none", client_task |-> "none", broadcast_task |-> "none",
     next |-> 0, delivered |-> <<>>, lagged |-> FALSE]

FetchStates == {"fetch_pyth", "fetch_switchboard"}

WriteStates == {"set_ex", "zadd", "zremrangebyrank"}

LiveStates == {"check"} \cup FetchStates \cup WriteStates \cup {"update_health", "sleep"}

NoResult == Err("none")

NoCall == [op |-> "none"]

\* OracleManager::new: not running, default health per symbol, empty cache
Init ==
    /\ is_running = FALSE
    /\ health_status = [s \in Symbols |-> OracleHealthDefault(NowInit)]
    /\ start_pc = [k \in Starts |-> "idle"]
    /\ pc = [l \in Loops |-> "unspawned"]
    /\ prices = [l \in Loops |-> <<>>]
    /\ result = [l \in Loops |-> NoResult]
    /\ ticks = 0
    /\ price_key = [s \in Keys |-> NoEntry]
    /\ history_key = [s \in Keys |-> <<>>]
    /\ published = [s \in Keys |-> <<>>]
    /\ now = NowInit
    /\ puts = [s \in Keys |-> 0]
    /\ health = OracleHealthDefault(NowInit)
    /\ calls = <<>>
    /\ last_op = NoCall
    /\ nops = 0
    /\ channel = <<>>
    /\ connection = [c \in Connections |-> NoConnection]

\* OracleManager::start up to the join: set the flag, spawn one loop per symbol
StartSpawn(k) ==
    /\ start_pc[k] = "idle"
    /\ \A j \in Starts : j < k => start_pc[j] # "idle"
    /\ is_running' = TRUE
    /\ pc' = [l \in Loops |-> IF l[1] = k THEN "check" ELSE pc[l]]
    /\ start_pc' = [start_pc EXCEPT ![k] = "joining"]
    /\ UNCHANGED <<wsVars, health_status, prices, result, ticks, price_key, history_key,
                   published, now, puts, health, calls, last_op, nops>>

\* OracleManager::start after the spawn: `task.await` for every task, Ok(())
StartJoin(k) ==
    /\ start_pc[k] = "joining"
    /\ \A s \in Symbols : pc[<<k, s>>] = "exited"
    /\ start_pc' = [start_pc EXCEPT ![k] = "returned"]
    /\ UNCHANGED <<wsVars, is_running, health_status, pc, prices, result, ticks, price_key,
                   history_key, published, now, puts, health, calls, last_op, nops>>

\* OracleManager::stop: clear the flag and return
Stop ==
    /\ is_running' = FALSE
    /\ UNCHANGED <<wsVars, health_status, start_pc, pc, prices, result, ticks, price_key,
                   history_key, published, now, puts, health, calls, last_op, nops>>

\* the loop condition `*self.is_running.read().await`
LoopCondition_Forever == TRUE

LoopCondition == is_running

\* price_fetch_loop: evaluate the loop condition, enter the body or return
LoopCheck(l) ==
    /\ pc[l] = "check"
    /\ IF LoopCondition
       THEN /\ ticks < MaxTicks
            /\ ticks' = ticks + 1
            /\ pc' = [pc EXCEPT ![l] = "fetch_pyth"]
       ELSE /\ ticks' = ticks
            /\ pc' = [pc EXCEPT ![l] = "exited"]
    /\ UNCHANGED <<wsVars, is_running, health_status, start_pc, prices, result, price_key,
                   history_key, published, now, puts, health, calls, last_op, nops>>

\* fetch_and_aggregate_price: `self.pyth_client.get_price(..).await`
FetchPyth(l) ==
    /\ pc[l] = "fetch_pyth"
    /\ \E account \in PythAccounts(now) :
       \E pyth_price \in {pyth_get_price(account, now)} :
          prices' = [prices EXCEPT ![l] =
                        IF pyth_price.ok THEN Append(@, pyth_price.value) ELSE @]
    /\ pc' = [pc EXCEPT ![l] = "fetch_switchboard"]
    /\ UNCHANGED <<wsVars, is_running, health_status, start_pc, result, ticks, price_key,
                   history_key, published, now, puts, health, calls, last_op, nops>>

\* the tail of fetch_and_aggregate_price once both fetches are done
fetch_and_aggregate_tail(collected, symbol) ==
    IF collected = <<>> THEN Err("No price sources available")
    ELSE aggregate_prices(collected, symbol)

\* what price_fetch_loop does with the Result of fetch_and_aggregate_price
AfterAggregate_AlwaysCache(res) == "set_ex"

AfterAggregate(res) == IF res.ok THEN "set_ex" ELSE "update_health"

\* fetch_and_aggregate_price: `self.switchboard_client.get_price(..).await`,
\* the emptiness test and the aggregation; then the match in price_fetch_loop
FetchSwitchboard(l) ==
    /\ pc[l] = "fetch_switchboard"
    /\ \E account \in SwitchboardAccounts(now) :
       \E sb_price \in {switchboard_get_price(account, now)} :
       \E collected \in {IF sb_price.ok THEN Append(prices[l], sb_price.value)
                          ELSE prices[l]} :
       \E res \in {fetch_and_aggregate_tail(collected, l[2])} :
          /\ prices' = [prices EXCEPT ![l] = collected]
          /\ result' = [result EXCEPT ![l] = res]
          /\ pc' = [pc EXCEPT ![l] = AfterAggregate(res)]
    /\ UNCHANGED <<wsVars, is_running, health_status, start_pc, ticks, price_key, history_key,
                   published, now, puts, health, calls, last_op, nops>>

\* the value set_price serializes: the aggregated PriceData of the tick
CachedValue_FirstSource(l) == IF prices[l] # <<>> THEN to_string(prices[l][1]) ELSE <<>>

CachedValue(l) == IF result[l].ok THEN to_string(result[l].value) ELSE <<>>

CachedScore(l) == IF result[l].ok THEN result[l].value.timestamp ELSE 0

\* where price_fetch_loop continues when set_price returned an error:
\* `if let Err(e) = ..set_price(..).await { error!(..) }`, then the health update
AfterSetPriceError_Return == "exited"

AfterSetPriceError == "update_health"

\* PriceCache::set_price: `conn.set_ex(&key, &value, self.cache_ttl).await?`
SetEx(l) ==
    /\ pc[l] = "set_ex"
    /\ \/ /\ price_key' = [price_key EXCEPT ![l[2]] = set_ex(CachedValue(l), cache_ttl, now)]
          /\ pc' = [pc EXCEPT ![l] = "zadd"]
       \/ /\ price_key' = price_key
          /\ pc' = [pc EXCEPT ![l] = AfterSetPriceError]
    /\ UNCHANGED <<wsVars, is_running, health_status, start_pc, prices, result, ticks,
                   history_key, published, now, puts, health, calls, last_op, nops>>

\* PriceCache::set_price: `conn.zadd(&history_key, &value, score).await?`
ZAdd(l) ==
    /\ pc[l] = "zadd"
    /\ \/ /\ history_key' = [history_key EXCEPT ![l[2]] =
                                zadd(@, CachedValue(l), CachedScore(l))]
          /\ pc' = [pc EXCEPT ![l] = "zremrangebyrank"]
       \/ /\ history_key' = history_key
          /\ pc' = [pc EXCEPT ![l] = AfterSetPriceError]
    /\ UNCHANGED <<wsVars, is_running, health_status, start_pc, prices, result, ticks,
                   price_key, published, now, puts, health, calls, last_op, nops>>

\* PriceCache::set_price: `conn.zremrangebyrank(&history_key, 0, -1001).await?`
\* and the return of Ok(())
ZRemRangeByRank(l) ==
    /\ pc[l] = "zremrangebyrank"
    /\ \/ /\ history_key' = [history_key EXCEPT ![l[2]] =
                                zremrangebyrank(@, 0, HistoryTrimStop)]
          /\ puts' = [puts EXCEPT ![l[2]] = @ + 1]
          /\ pc' = [pc EXCEPT ![l] = "update_health"]
       \/ /\ history_key' = history_key
          /\ puts' = puts
          /\ pc' = [pc EXCEPT ![l] = AfterSetPriceError]
    /\ UNCHANGED <<wsVars, is_running, health_status, start_pc, prices, result, ticks,
                   price_key, published, now, health, calls, last_op, nops>>

\* the argument price_fetch_loop passes to update_health_status
HealthArgument(l) == result[l].ok

\* update_health_status without the write lock held over the update: the
\* record is read, updated and stored, and a store is lost when another loop
\* is in the call at the same time
UpdateHealth_Unlocked(l) ==
    /\ pc[l] = "update_health"
    /\ health_status' =
          IF \E m \in Loops \ {l} : pc[m] = "update_health" THEN health_status
          ELSE [health_status EXCEPT ![l[2]] = update(@, HealthArgument(l), now)]
    /\ pc' = [pc EXCEPT ![l] = "sleep"]
    /\ prices' = [prices EXCEPT ![l] = <<>>]
    /\ result' = [result EXCEPT ![l] = NoResult]
    /\ UNCHANGED <<wsVars, is_running, start_pc, ticks, price_key, history_key,
                   published, now, puts, health, calls, last_op, nops>>

\* OracleManager::update_health_status(&symbol.name, ..)
UpdateHealth(l) ==
    /\ pc[l] = "update_health"
    /\ health_status' = [health_status EXCEPT ![l[2]] = update(@, HealthArgument(l), now)]
    /\ pc' = [pc EXCEPT ![l] = "sleep"]
    /\ prices' = [prices EXCEPT ![l] = <<>>]
    /\ result' = [result EXCEPT ![l] = NoResult]
    /\ UNCHANGED <<wsVars, is_running, start_pc, ticks, price_key, history_key,
                   published, now, puts, health, calls, last_op, nops>>

\* price_fetch_loop: `tokio::time::sleep(Duration::from_millis(500)).await`
Sleep(l) ==
    /\ pc[l] = "sleep"
    /\ pc' = [pc EXCEPT ![l] = "check"]
    /\ UNCHANGED <<wsVars, is_running, health_status, start_pc, prices, result, ticks, price_key,
                   history_key, published, now, puts, health, calls, last_op, nops>>

\* one step of a polling loop
LoopStep(l) ==
    \/ LoopCheck(l)
    \/ FetchPyth(l)
    \/ FetchSwitchboard(l)
    \/ SetEx(l)
    \/ ZAdd(l)
    \/ ZRemRangeByRank(l)
    \/ UpdateHealth(l)
    \/ Sleep(l)

Next ==
    \/ \E k \in Starts : StartSpawn(k)
    \/ \E k \in Starts : StartJoin(k)
    \/ Stop
    \/ \E l \in Loops : LoopStep(l)

Spec == Init /\ [][Next]_vars

\* the tokio scheduler runs every ready task; every await returns
Fairness ==
    /\ \A l \in Loops : WF_vars(LoopStep(l))
    /\ \A k \in Starts : WF_vars(StartJoin(k))

SpecFair == Spec /\ Fairness

(***************************************************************************)
(* A stand-alone OracleHealth record driven by arbitrary update calls.     *)
(***************************************************************************)
HealthUpdate(success) ==
    /\ Len(calls) < MaxUpdates
    /\ health' = update(health, success, now)
    /\ calls' = Append(calls, success)
    /\ UNCHANGED <<wsVars, managerVars, last_op, nops>>

NextHealth == \E success \in BOOLEAN : HealthUpdate(success)

SpecHealth == Init /\ [][NextHealth]_vars

\* PriceCache::get_price at the current time
get_price(symbol) ==
    LET value == redis_get(price_key[symbol], now)
    IN  IF value.ok THEN Ok(from_str(value.value)) ELSE Err("None")

\* PriceCache::get_price_history(symbol, limit): `limit as isize - 1` is the
\* stop index; every stored member parses
get_price_history(symbol, limit) ==
    LET values == zrevrange(history_key[symbol], 0, limit - 1)
    IN  [i \in 1..Len(values) |-> from_str(values[i])]

(***************************************************************************)
(* Calls made by the clients of the PriceCache and of the OracleManager    *)
(* (the REST handlers, the tests) while no polling loop runs, and the wall *)
(* clock.                                                                  *)
(***************************************************************************)
\* the readings a client passes to set_price and set_multiple_prices
Readings ==
    {PriceData(1000, 100, -8, NowInit - FreshnessSecs, "Pyth", ""),
     PriceData(2000, 0, -8, NowInit - FreshnessSecs - 1, "Aggregated", "BTC/USD")}

\* the Redis command of set_price that returns an error, if any
FailPoints == {"none", "set_ex", "zadd", "zremrangebyrank"}

\* PriceCache::set_price(symbol, price_data) at time t, on the two keys of the
\* symbol: every command is followed by `?`
set_price(price_entry, history, price_data, t, fail_at) ==
    LET value == to_string(price_data)
        score == price_data.timestamp
    IN  IF fail_at = "set_ex"
        THEN [price |-> price_entry, history |-> history, ok |-> FALSE]
        ELSE IF fail_at = "zadd"
        THEN [price |-> set_ex(value, cache_ttl, t), history |-> history, ok |-> FALSE]
        ELSE IF fail_at = "zremrangebyrank"
        THEN [price |-> set_ex(value, cache_ttl, t),
              history |-> zadd(history, value, score), ok |-> FALSE]
        ELSE [price |-> set_ex(value, cache_ttl, t),
              history |-> zremrangebyrank(zadd(history, value, score), 0, HistoryTrimStop),
              ok |-> TRUE]

\* a client calls PriceCache::set_price(s, r)
CallSetPrice(s, r, fail_at) ==
    /\ nops < MaxOps
    /\ LET res == set_price(price_key[s], history_key[s], r, now, fail_at)
       IN  /\ price_key' = [price_key EXCEPT ![s] = res.price]
           /\ history_key' = [history_key EXCEPT ![s] = res.history]
           /\ puts' = [puts EXCEPT ![s] = IF res.ok THEN @ + 1 ELSE @]
           /\ last_op' = [op |-> "set_price", symbol |-> s, price_data |-> r,
                          ok |-> res.ok, at |-> now]
    /\ nops' = nops + 1
    /\ UNCHANGED <<wsVars, is_running, health_status, start_pc, pc, prices, result, ticks,
                   published, now, health, calls>>

\* the SETEX commands of the pipeline of set_multiple_prices, in order
RECURSIVE pipe_set_ex(_, _, _)
pipe_set_ex(entries, pairs, t) ==
    IF pairs = <<>> THEN entries
    ELSE pipe_set_ex([entries EXCEPT ![Head(pairs)[1]] =
                         set_ex(to_string(Head(pairs)[2]), cache_ttl, t)],
                     Tail(pairs), t)

\* PriceCache::set_multiple_prices(prices) at time t on the price:<symbol>
\* keys; when the pipeline fails, `applied` of its commands have taken effect
set_multiple_prices(entries, pairs, t, applied) ==
    [price |-> pipe_set_ex(entries, SubSeq(pairs, 1, applied), t),
     ok |-> applied = Len(pairs)]

\* the batches a client passes to set_multiple_prices
Batches ==
    LET r1 == PriceData(1000, 100, -8, NowInit - FreshnessSecs, "Pyth", "")
        r2 == PriceData(2000, 0, -8, NowInit - FreshnessSecs - 1, "Aggregated", "BTC/USD")
    IN  {<<>>, << <<"BTC/USD", r1>>, <<"BTC/USD", r2>> >>,
         << <<"DOGE/USD", r2>>, <<"BTC/USD", r1>> >>}

\* a client calls PriceCache::set_multiple_prices(pairs)
CallSetMultiplePrices(pairs, applied) ==
    /\ nops < MaxOps
    /\ LET res == set_multiple_prices(price_key, pairs, now, applied)
       IN  /\ price_key' = res.price
           /\ last_op' = [op |-> "set_multiple_prices", prices |-> pairs,
                          ok |-> res.ok, at |-> now]
    /\ nops' = nops + 1
    /\ UNCHANGED <<wsVars, is_running, health_status, start_pc, pc, prices, result, ticks,
                   history_key, published, now, puts, health, calls>>

\* PriceData::is_fresh(max_age) at time t
is_fresh_Strict(price_data, max_age, t) == t - price_data.timestamp < max_age

is_fresh(price_data, max_age, t) == t - price_data.timestamp <= max_age

\* OracleManager::fetch_and_aggregate_price on the accounts the two RPCs
\* return, at time t
fetch_and_aggregate_price(symbol, pyth_price, sb_price) ==
    fetch_and_aggregate_tail(
        (IF pyth_price.ok THEN <<pyth_price.value>> ELSE <<>>)
           \o (IF sb_price.ok THEN <<sb_price.value>> ELSE <<>>),
        symbol)

\* OracleManager::get_current_price(symbol) at time t: cached is what
\* price_cache.get_price returned, pyth_price and sb_price what the clients
\* return when they are asked
get_current_price(symbol, cached, pyth_price, sb_price, t) ==
    IF cached.ok /\ is_fresh(cached.value, FreshnessSecs, t)
    THEN [reply |-> Ok(cached.value), fetches |-> 0]
    ELSE IF symbol \notin Symbols
    THEN [reply |-> Err("Symbol not configured"), fetches |-> 0]
    ELSE [reply |-> fetch_and_aggregate_price(symbol, pyth_price, sb_price), fetches |-> 1]

\* a client calls OracleManager::get_current_price(symbol); the GET of the
\* cache either answers or fails
CallGetCurrentPrice_WriteBack(symbol) ==
    /\ nops < MaxOps
    /\ \E cached \in {get_price(symbol), Err("redis")} :
       \E pyth_price \in {pyth_get_price(a, now) : a \in PythAccounts(now)} :
       \E sb_price \in {switchboard_get_price(a, now) : a \in SwitchboardAccounts(now)} :
       \E res \in {get_current_price(symbol, cached, pyth_price, sb_price, now)} :
          /\ last_op' = [op |-> "get_current_price", symbol |-> symbol, cached |-> cached,
                         pyth_price |-> IF res.fetches = 0 THEN NoResult ELSE pyth_price,
                         sb_price |-> IF res.fetches = 0 THEN NoResult ELSE sb_price,
                         reply |-> res.reply, fetches |-> res.fetches, at |-> now]
          /\ price_key' = IF res.fetches = 1 /\ res.reply.ok
                          THEN [price_key EXCEPT ![symbol] =
                                   set_ex(to_string(res.reply.value), cache_ttl, now)]
                          ELSE price_key
    /\ nops' = nops + 1
    /\ UNCHANGED <<wsVars, is_running, health_status, start_pc, pc, prices, result, ticks,
                   history_key, published, now, puts, health, calls>>

CallGetCurrentPrice(symbol) ==
    /\ nops < MaxOps
    /\ \E cached \in {get_price(symbol), Err("redis")} :
       \E pyth_price \in {pyth_get_price(a, now) : a \in PythAccounts(now)} :
       \E sb_price \in {switchboard_get_price(a, now) : a \in SwitchboardAccounts(now)} :
       \E res \in {get_current_price(symbol, cached, pyth_price, sb_price, now)} :
          last_op' = [op |-> "get_current_price", symbol |-> symbol, cached |-> cached,
                      pyth_price |-> IF res.fetches = 0 THEN NoResult ELSE pyth_price,
                      sb_price |-> IF res.fetches = 0 THEN NoResult ELSE sb_price,
                      reply |-> res.reply, fetches |-> res.fetches, at |-> now]
    /\ nops' = nops + 1
    /\ UNCHANGED <<wsVars, is_running, health_status, start_pc, pc, prices, result, ticks,
                   price_key, history_key, published, now, puts, health, calls>>

\* the steps of the wall clock: just below, at and just above the TTL
ClockSteps == {cache_ttl - 1, cache_ttl, cache_ttl + 1}

\* the wall clock advances by d seconds
Advance(d) ==
    /\ now + d <= NowInit + MaxElapsed
    /\ now' = now + d
    /\ UNCHANGED <<wsVars, is_running, health_status, start_pc, pc, prices, result, ticks,
                   price_key, history_key, published, puts, health, calls, last_op, nops>>

\* clients of the cache: writes, batched writes and the passing of time
NextCache ==
    \/ \E s \in Keys, r \in Readings, fail_at \in FailPoints : CallSetPrice(s, r, fail_at)
    \/ \E pairs \in Batches : \E applied \in 0..Len(pairs) :
          CallSetMultiplePrices(pairs, applied)
    \/ \E d \in ClockSteps : Advance(d)

SpecCache == Init /\ [][NextCache]_vars

\* clients of the manager's read path, over a cache that has been written
NextRead ==
    \/ \E s \in Keys, r \in Readings : CallSetPrice(s, r, "none")
    \/ \E s \in Keys : CallGetCurrentPrice(s)
    \/ Advance(cache_ttl + 1)

SpecRead == Init /\ [][NextRead]_vars

(***************************************************************************)
(* set_price on a history that many earlier calls have filled: one entry   *)
(* per second from second 1 on, the price key long expired.                *)
(***************************************************************************)
\* history:<symbol> after n readings with the timestamps 1..n were put
FilledHistory(n) ==
    [i \in 1..n |-> [member |-> to_string(PriceData(1000, 100, -8, i, "Aggregated", "BTC/USD")),
                     score |-> i]]

\* below the cap, at the cap, and one above it (a trim that failed)
FilledSizes == {HistoryCap - 1, HistoryCap, HistoryCap + 1}

\* readings older than every entry, as old as the oldest, newer than all
HistoryReadings ==
    {PriceData(2000, 0, -8, ts, "Aggregated", "BTC/USD") : ts \in {0, 1, HistoryCap + 2}}

InitHistory ==
    /\ is_running = FALSE
    /\ health_status = [s \in Symbols |-> OracleHealthDefault(NowInit)]
    /\ start_pc = [k \in Starts |-> "idle"]
    /\ pc = [l \in Loops |-> "unspawned"]
    /\ prices = [l \in Loops |-> <<>>]
    /\ result = [l \in Loops |-> NoResult]
    /\ ticks = 0
    /\ price_key = [s \in Keys |-> NoEntry]
    /\ \E n \in FilledSizes :
          history_key = [s \in Keys |-> IF s \in Symbols THEN FilledHistory(n) ELSE <<>>]
    /\ published = [s \in Keys |-> <<>>]
    /\ now = NowInit
    /\ puts = [s \in Keys |-> 0]
    /\ health = OracleHealthDefault(NowInit)
    /\ calls = <<>>
    /\ last_op = NoCall
    /\ nops = 0
    /\ channel = <<>>
    /\ connection = [c \in Connections |-> NoConnection]

NextHistory ==
    \E s \in Symbols, r \in HistoryReadings, fail_at \in {"none", "zremrangebyrank"} :
       CallSetPrice(s, r, fail_at)

SpecHistory == InitHistory /\ [][NextHistory]_vars

(***************************************************************************)
(* The two decoders on their own: PythClient::get_price and                *)
(* SwitchboardClient::get_price applied to the bytes of an account.  A     *)
(* payload is the record of the byte ranges the decoder reads: its length, *)
(* the leading bytes as a sequence, the little-endian integers as numbers. *)
(***************************************************************************)
\* the bytes data[0..4] for which u32::from_le_bytes is 0xa1b2c3d4 (pyth.rs:56)
PythMagic == <<212, 195, 178, 161>>

\* switchboard.rs:49
expected_discriminator == <<217, 230, 65, 101, 201, 162, 27, 125>>

\* the most significant byte first
Reversed(bytes) == [i \in 1..Len(bytes) |-> bytes[Len(bytes) + 1 - i]]

\* pyth.rs:52-85: the fields PythClient::get_price reads out of the bytes
pyth_account_BigEndian(data) ==
    [len |-> data.len, magic_ok |-> Reversed(data.magic) = PythMagic,
     version |-> data.version, price |-> data.price, confidence |-> data.confidence,
     expo |-> data.expo, timestamp |-> data.timestamp, status |-> data.status]

pyth_account(data) ==
    [len |-> data.len, magic_ok |-> data.magic = PythMagic,
     version |-> data.version, price |-> data.price, confidence |-> data.confidence,
     expo |-> data.expo, timestamp |-> data.timestamp, status |-> data.status]

\* switchboard.rs:48-72: the fields SwitchboardClient::get_price reads
switchboard_account(data) ==
    [len |-> data.len, discriminator_ok |-> data.discriminator = expected_discriminator,
     mantissa |-> data.mantissa, scale |-> data.scale,
     latest_timestamp |-> data.latest_timestamp,
     min_response |-> data.min_response, max_response |-> data.max_response]

\* ages of a payload's timestamp: in the future, new, around the limit
PayloadAges == {-1, 0, MaxPriceAge - 1, MaxPriceAge, MaxPriceAge + 1}

\* the payloads handed to the Pyth decoder at wall time t
PythPayloads(t) ==
    {[len |-> len, magic |-> magic, version |-> version, price |-> price,
      confidence |-> 100, expo |-> expo, timestamp |-> t - age, status |-> status] :
        len \in {239, 240}, magic \in {PythMagic, Reversed(PythMagic)},
        version \in {1, 2}, price \in {5, 1000, 2000000000},
        expo \in {-19, -8, 0, 1}, age \in PayloadAges, status \in {0, 1, 2}}

\* the payloads handed to the Switchboard decoder at wall time t
SwitchboardPayloads(t) ==
    {[len |-> len, discriminator |-> discriminator, mantissa |-> mantissa,
      scale |-> scale, latest_timestamp |-> t - age,
      min_response |-> I64(mantissa - 2), max_response |-> I64(mantissa + 2)] :
        len \in {255, 256},
        discriminator \in {expected_discriminator, Reversed(expected_discriminator)},
        mantissa \in {5, 100, 2000000000}, scale \in {0, 8, 19}, age \in PayloadAges}

\* PythClient::get_price is called on an account with the bytes `data`
CallPythGetPrice(data) ==
    /\ nops < MaxOps
    /\ last_op' = [op |-> "pyth_get_price", data |-> data,
                   reply |-> pyth_get_price(pyth_account(data), now), at |-> now]
    /\ nops' = nops + 1
    /\ UNCHANGED <<wsVars, managerVars, health, calls>>

\* what a call of SwitchboardClient::get_price on the account comes to at
\* wall time t: the Result it returns, or, when it gets to line 87 and the
\* subtraction or the abs() overflows, in a build with overflow checks a panic
get_price_outcomes(account, t) ==
    {switchboard_get_price(account, t)} \cup
    (IF /\ switchboard_get_price(account, t).ok
        /\ spread_overflows(account.min_response, account.max_response)
     THEN {Err("panicked: attempt to subtract with overflow")} ELSE {})

\* SwitchboardClient::get_price is called on an account with the bytes `data`
CallSwitchboardGetPrice(data) ==
    /\ nops < MaxOps
    /\ \E reply \in get_price_outcomes(switchboard_account(data), now) :
          last_op' = [op |-> "switchboard_get_price", data |-> data,
                      reply |-> reply, at |-> now]
    /\ nops' = nops + 1
    /\ UNCHANGED <<wsVars, managerVars, health, calls>>

NextDecode ==
    \/ \E data \in PythPayloads(now) : CallPythGetPrice(data)
    \/ \E data \in SwitchboardPayloads(now) : CallSwitchboardGetPrice(data)

SpecDecode == Init /\ [][NextDecode]_vars

(***************************************************************************)
(* aggregator.rs: a direct call of the public aggregate_prices.            *)
(***************************************************************************)
\* PriceAggregator::aggregate_prices(input, symbol) is called
CallAggregatePrices(input, symbol) ==
    /\ nops < MaxOps
    /\ last_op' = [op |-> "aggregate_prices", prices |-> input, symbol |-> symbol,
                   reply |-> aggregate_prices(input, symbol), at |-> now]
    /\ nops' = nops + 1
    /\ UNCHANGED <<wsVars, managerVars, health, calls>>

NextAggregate ==
    \E input \in AggregatorInputs(now), symbol \in Keys : CallAggregatePrices(input, symbol)

SpecAggregate == Init /\ [][NextAggregate]_vars

(***************************************************************************)
(* Direct calls of the functions that have no state: filter_outliers as    *)
(* aggregate_prices and test_outlier_detection call it, and the            *)
(* Switchboard decoder on the range of the responses.                      *)
(***************************************************************************)
\* the prices (at expo -8) of the sequences handed to filter_outliers: none,
\* one, two and three of three prices, a price 3 and a price 4 times as far
\* from the median as the third, and a price far from three clustered ones
FilterPrices ==
    LET P == {1000, 1010, 1050}
        Far == <<50000, 50010, 50020, 100000>>
    IN  {<<>>} \cup [1..1 -> P] \cup [1..2 -> P] \cup [1..3 -> P]
           \cup {<<1000, 1010, 1040>>, <<1040, 1000, 1010>>, <<1010, 1040, 1000>>,
                 <<1000, 1000, 1000, 1000, 2000>>, <<1000, 1010, 1020, 1030, 1040>>}
           \cup {[i \in 1..4 |-> Far[((i + k) % 4) + 1]] : k \in 0..3}

\* the sequences of readings handed to filter_outliers at wall time t, each
\* reading with a timestamp of its own, and one with a reading at 6 decimals
FilterInputs(t) ==
    {[i \in 1..Len(ps) |->
         PriceData(ps[i], 100, -8, t - i, IF i % 2 = 1 THEN "Pyth" ELSE "Switchboard", "")] :
       ps \in FilterPrices}
      \cup {<<PriceData(1000, 100, -6, t - 1, "Pyth", ""),
              PriceData(100010, 100, -8, t - 2, "Switchboard", ""),
              PriceData(1000, 100, -8, t - 3, "Pyth", "")>>}

\* filter_outliers for each of these sequences; the result does not depend
\* on the wall time but for the timestamps it carries along
FilterTable == {<<input, filtered_prices(input)>> : input \in FilterInputs(NowInit)}

\* filter_outliers(&normalized_prices, input) is called
CallFilterOutliers(input) ==
    /\ nops < MaxOps
    /\ last_op' = [op |-> "filter_outliers", prices |-> input,
                   reply |-> (CHOOSE entry \in FilterTable : entry[1] = input)[2],
                   at |-> now]
    /\ nops' = nops + 1
    /\ UNCHANGED <<wsVars, managerVars, health, calls>>

\* new payloads that pass the checks of the Switchboard decoder, with the
\* bytes of min_response and max_response those of a few small numbers, of
\* i64::MIN and of i64::MAX
SpreadPayloads(t) ==
    LET Responses == {I64(-7), I64(-1), I64(0), I64(4),
                      BShl(<<1>>, 63), BSub(BShl(<<1>>, 63), <<1>>)}
    IN  {[len |-> 256, discriminator |-> expected_discriminator, mantissa |-> 100,
          scale |-> 8, latest_timestamp |-> t,
          min_response |-> lo, max_response |-> hi] :
            lo \in Responses, hi \in Responses}

\* programs/oracle-integration lib.rs:211-212: `deviation > 0.01` for
\* `(price as f64 - median as f64).abs() / median as f64`, both numbers
\* within the integers an f64 holds exactly.  A negative median makes the
\* quotient negative or -0.0; a median of 0 makes it inf, or NaN for price 0.
deviation_too_high(price, median) ==
    IF median < 0 THEN FALSE
    ELSE IF median = 0 THEN price # 0
    ELSE FLess(FLit(1, 100), FDiv(FInt(Abs(price - median)), FInt(median)))

\* lib.rs:199-207: the median of the prices, the i64 division truncating
\* toward zero (the sum of the two middle prices within i64)
consensus_median(readings) ==
    LET n == Len(readings)
        sorted_prices == [k \in 1..n |->
            CHOOSE x \in {readings[i].price : i \in 1..n} :
                /\ Cardinality({i \in 1..n : readings[i].price < x}) < k
                /\ k <= Cardinality({i \in 1..n : readings[i].price <= x})]
        sum == sorted_prices[n \div 2] + sorted_prices[n \div 2 + 1]
    IN  IF n % 2 = 0 THEN (IF sum < 0 THEN -((-sum) \div 2) ELSE sum \div 2)
        ELSE sorted_prices[n \div 2 + 1]

\* lib.rs:209-217 once the median is bound; `median as u64` keeps the bits of
\* a negative median, written as digits
checked_median(readings, median) ==
    IF \E i \in 1..Len(readings) : deviation_too_high(readings[i].price, median)
    THEN Err("PriceDeviationTooHigh")
    ELSE Ok(IF median >= 0 THEN median ELSE I64(median))

\* programs/oracle-integration: validate_price_consensus(_ctx, prices)
validate_price_consensus(readings) ==
    IF Len(readings) < 2 THEN Err("InsufficientSources")
    ELSE checked_median(readings, consensus_median(readings))

\* validate_price_consensus for none, one and two of a few prices, and for
\* three of some of them
ConsensusCalls ==
    LET reading(p) == PriceData(p, 0, -8, NowInit, "Pyth", "")
        P == {-50, -1, 0, 100, 101, 102, 50000, 50200, 50500, 51000}
        Q == {-50, -1, 100, 50000, 50200, 50500, 51000}
    IN  {[prices |-> input, result |-> validate_price_consensus(input)] :
            input \in {<<>>} \cup {<<reading(a)>> : a \in P}
                         \cup {<<reading(a), reading(b)>> : a \in P, b \in P}
                         \cup {<<reading(a), reading(b), reading(c)>> :
                                  a \in Q, b \in Q, c \in Q}}

\* the instruction validate_price_consensus is executed
CallValidatePriceConsensus(call) ==
    /\ nops < MaxOps
    /\ last_op' = [op |-> "validate_price_consensus", prices |-> call.prices,
                   reply |-> call.result, at |-> now]
    /\ nops' = nops + 1
    /\ UNCHANGED <<wsVars, managerVars, health, calls>>

\* detect_manipulation with the reference 50000 for none, one and two of a
\* few readings: prices 20%, 10% and just over 10% below and above the
\* reference, the reference itself, and a price at 2 decimals
ManipulationCalls ==
    LET R == {PriceData(40000, 100, 0, NowInit, "Pyth", ""),
              PriceData(44999, 100, 0, NowInit, "Switchboard", ""),
              PriceData(45000, 100, 0, NowInit, "Switchboard", ""),
              PriceData(50000, 100, 0, NowInit, "Pyth", ""),
              PriceData(55000, 100, 0, NowInit, "Pyth", ""),
              PriceData(5500001, 100, -2, NowInit, "Switchboard", ""),
              PriceData(6000000, 100, -2, NowInit, "Internal", "")}
    IN  {[prices |-> input, historical_avg |-> FInt(50000),
          alerts |-> detect_manipulation(input, FInt(50000))] :
            input \in {<<>>} \cup {<<r>> : r \in R} \cup {<<r1, r2>> : r1 \in R, r2 \in R}}

\* PriceAggregator::detect_manipulation is called
CallDetectManipulation(call) ==
    /\ nops < MaxOps
    /\ last_op' = [op |-> "detect_manipulation", prices |-> call.prices,
                   historical_avg |-> call.historical_avg,
                   reply |-> call.alerts, at |-> now]
    /\ nops' = nops + 1
    /\ UNCHANGED <<wsVars, managerVars, health, calls>>

NextFunctions ==
    \/ \E input \in FilterInputs(now) : CallFilterOutliers(input)
    \/ \E data \in SpreadPayloads(now) : CallSwitchboardGetPrice(data)
    \/ \E call \in ManipulationCalls : CallDetectManipulation(call)
    \/ \E call \in ConsensusCalls : CallValidatePriceConsensus(call)

SpecFunctions == Init /\ [][NextFunctions]_vars

(***************************************************************************)
(* websocket.rs: the broadcast channel and handle_websocket.  The channel   *)
(* is tokio::sync::broadcast: `channel` holds every message sent, of which  *)
(* the last ChannelCapacity are still in the slots; a receiver is a         *)
(* position in it.                                                          *)
(***************************************************************************)

\* the receivers that exist: the broadcast_receiver of each broadcast_task
\* that has not ended (start_websocket_server drops the first receiver)
receiver_count ==
    Cardinality({c \in Connections : connection[c].broadcast_task = "running"})

\* tokio broadcast Receiver::recv for a receiver at position `next` when
\* `tail` messages have been sent: Lagged when the slot of `next` has been
\* overwritten, pending when there is nothing new, else the message
broadcast_recv(next, tail) ==
    IF tail - next > ChannelCapacity THEN Err("Lagged")
    ELSE IF next = tail THEN Err("Pending")
    ELSE Ok(channel[next + 1])

\* websocket.rs:36-98 up to the select: split the socket, subscribe, spawn
\* client_task and broadcast_task
HandleWebsocket(c) ==
    /\ connection[c].handler = "none"
    /\ connection' = [connection EXCEPT ![c] =
          [handler |-> "serving", client_task |-> "running",
           broadcast_task |-> "running", next |-> Len(channel),
           delivered |-> <<>>, lagged |-> FALSE]]
    /\ UNCHANGED <<managerVars, health, calls, last_op, nops, channel>>

\* websocket.rs:122-139 broadcast_price_update: Sender::send fails only when
\* no receiver exists, and then stores nothing; the error is logged
BroadcastPriceUpdate ==
    /\ Len(channel) < MaxSent
    /\ channel' = IF receiver_count = 0 THEN channel
                  ELSE Append(channel, Len(channel) + 1)
    /\ last_op' = [op |-> "broadcast_price_update", receivers |-> receiver_count,
                   reply |-> IF receiver_count = 0 THEN Err("SendError")
                             ELSE Ok(receiver_count), at |-> now]
    /\ UNCHANGED <<managerVars, health, calls, nops, connection>>

\* websocket.rs:82-91, one turn of broadcast_task's loop: `while let Ok(..)`
\* ends the task on Lagged; a message is written to the socket, and the task
\* ends when that fails, which it does once the client has closed.  The
\* handler's select (94-97) returns when a task ends.
BroadcastTaskStep(c) ==
    LET conn == connection[c]
        received == broadcast_recv(conn.next, Len(channel))
    IN  /\ conn.broadcast_task = "running"
        /\ received # Err("Pending")
        /\ connection' = [connection EXCEPT ![c] =
              IF ~received.ok
              THEN [conn EXCEPT !.broadcast_task = "ended", !.handler = "returned",
                                !.lagged = TRUE]
              ELSE IF conn.client_task = "ended"
              THEN [conn EXCEPT !.broadcast_task = "ended", !.next = @ + 1]
              ELSE [conn EXCEPT !.next = @ + 1,
                                !.delivered = Append(@, received.value)]]
        /\ UNCHANGED <<managerVars, health, calls, last_op, nops, channel>>

\* websocket.rs:46-78, client_task reads Close (or an error) from the client:
\* the loop breaks, the task ends and the handler's select returns
ClientClose(c) ==
    /\ connection[c].client_task = "running"
    /\ connection' = [connection EXCEPT ![c].client_task = "ended",
                                        ![c].handler = "returned"]
    /\ UNCHANGED <<managerVars, health, calls, last_op, nops, channel>>

NextWebsocket ==
    \/ \E c \in Connections : HandleWebsocket(c)
    \/ BroadcastPriceUpdate
    \/ \E c \in Connections : BroadcastTaskStep(c)
    \/ \E c \in Connections : ClientClose(c)

SpecWebsocket == Init /\ [][NextWebsocket]_vars

(***************************************************************************)
(* Properties.                                                             *)
(***************************************************************************)
\* length of the run of failures that ends a sequence of update arguments
RECURSIVE TrailingFailures(_)
TrailingFailures(cs) ==
    IF cs = <<>> \/ cs[Len(cs)] THEN 0
    ELSE 1 + TrailingFailures(SubSeq(cs, 1, Len(cs) - 1))

\* C1: after any sequence of update calls on a default record, the record is
\* unhealthy exactly when the sequence ends with three or more consecutive
\* failures, and right after a success it is healthy with
\* consecutive_failures = 0.
C1_HealthFlips ==
    /\ health.is_healthy <=> TrailingFailures(calls) < 3
    /\ (calls # <<>> /\ calls[Len(calls)])
          => health.is_healthy /\ health.consecutive_failures = 0

\* three failures made the record unhealthy and the next success healed it
C1_Witness ==
    /\ calls = <<FALSE, FALSE, FALSE, TRUE>>
    /\ health.is_healthy
    /\ health.consecutive_failures = 0

\* the loops that start() calls have spawned for a symbol
SpawnedLoops(s) == {l \in Loops : l[2] = s /\ pc[l] # "unspawned"}

\* the loops of a symbol that have not returned
LiveLoops(s) == {l \in Loops : l[2] = s /\ pc[l] \in LiveStates}

\* C2: with a single polling loop writing price:<symbol>, two successive reads
\* that both return a reading never see the timestamp decrease.
C2_MonotoneReads ==
    [][\A s \in Symbols :
          (Cardinality(SpawnedLoops(s)) <= 1 /\ get_price(s).ok /\ get_price(s)'.ok)
             => get_price(s)'.value.timestamp >= get_price(s).value.timestamp]_vars

\* C3: the number of messages published on price_updates:<symbol> equals the
\* number of successful set_price calls for the symbol.
C3_PublishPerPut == \A s \in Symbols : Len(published[s]) = puts[s]

\* C4: there is at most one live polling loop per symbol, however often
\* start() is called.
C4_OneLoopPerSymbol == \A s \in Symbols : Cardinality(LiveLoops(s)) <= 1

\* a step of loop l
StepOf(l) == pc'[l] # pc[l]

\* C5: while the flag is clear after stop() has returned, no polling loop
\* completes a source fetch, a cache write or a health update.
C5_StopDrains ==
    [][~is_running =>
          \A l \in Loops :
             pc[l] \in FetchStates \cup WriteStates \cup {"update_health"} => ~StepOf(l)]_vars

\* C6: with the flag clear, a loop whose fetch completes does not go on to a
\* cache write or a health update, and a loop whose sleep has completed
\* returns at the loop condition.
C6_ExitAtSuspension ==
    [][\A l \in Loops :
          (~is_running /\ StepOf(l)) =>
             /\ pc[l] = "fetch_switchboard" => pc'[l] \notin WriteStates \cup {"update_health"}
             /\ pc[l] = "check" => pc'[l] = "exited"]_vars

\* no loop is live and no start() call is waiting for its tasks
Quiescent ==
    /\ \A l \in Loops : pc[l] \notin LiveStates
    /\ \A k \in Starts : start_pc[k] # "joining"

\* C7: under fair scheduling, once the flag is clear and unless start() sets
\* it again, every polling loop eventually returns and every pending start()
\* call returns.
C7_LoopsDrain == ~is_running ~> (is_running \/ Quiescent)

\* a start() call has returned after stop() cleared the flag
C7_Witness ==
    /\ ~is_running
    /\ Quiescent
    /\ \E k \in Starts : start_pc[k] = "returned"

\* C8: a tick in which exactly one source yielded a reading is not aborted:
\* the aggregation of that single reading succeeds and carries its
\* timestamp, the loop goes on to set_price, and a SETEX that Redis accepts
\* makes exactly that aggregated reading the cached one.
C8_OneSourceTickWrites ==
    [][\A l \in Loops :
          /\ (pc[l] = "fetch_switchboard" /\ StepOf(l) /\ Len(prices'[l]) = 1) =>
                /\ pc'[l] = "set_ex"
                /\ result'[l].ok
                /\ result'[l].value.timestamp = prices'[l][1].timestamp
                /\ result'[l].value.source = "Aggregated"
          /\ (pc[l] = "set_ex" /\ pc'[l] = "zadd" /\ Len(prices[l]) = 1) =>
                /\ get_price(l[2])'.ok
                /\ get_price(l[2])'.value = result[l].value
                /\ get_price(l[2])'.value.timestamp = prices[l][1].timestamp]_vars

\* a one-source tick has written its aggregated reading to price:<symbol>
C8_Witness ==
    \E l \in Loops :
       /\ pc[l] = "zadd"
       /\ Len(prices[l]) = 1
       /\ get_price(l[2]).ok
       /\ get_price(l[2]).value.timestamp = prices[l][1].timestamp

\* failures a health record has counted
Failures(h) == h.total_requests - h.successful_requests

\* sources polled per tick: Pyth and Switchboard
NumSources == 2

\* C9: the health update of a tick counts one failure for every source that
\* failed in the tick (two when both fetches fail, one when exactly one fails).
C9_PerSourceFailures ==
    [][\A l \in Loops :
          (pc[l] = "update_health" /\ StepOf(l)) =>
             Failures(health_status'[l[2]]) - Failures(health_status[l[2]])
                = NumSources - Len(prices[l])]_vars

\* C10: no step of a tick whose fetch_and_aggregate_price returned an error
\* changes price:<symbol> or history:<symbol>, so get returns after the step
\* what it returned before it.
C10_FailedTickKeepsCache ==
    [][\A l \in Loops :
          (StepOf(l) /\ (\/ pc[l] \in WriteStates \cup {"update_health"} /\ ~result[l].ok
                         \/ pc[l] = "fetch_switchboard" /\ ~result'[l].ok)) =>
             /\ price_key' = price_key
             /\ history_key' = history_key
             /\ get_price(l[2])' = get_price(l[2])]_vars

\* a tick has failed while price:<symbol> holds the reading of an earlier tick
C10_Witness ==
    \E l \in Loops :
       /\ pc[l] = "update_health"
       /\ ~result[l].ok
       /\ get_price(l[2]).ok
       /\ history_key[l[2]] # <<>>

\* a step of loop l in which a Redis command of set_price fails
PutFailedStep(l) ==
    /\ StepOf(l)
    /\ \/ pc[l] = "set_ex" /\ pc'[l] # "zadd"
       \/ pc[l] = "zadd" /\ pc'[l] # "zremrangebyrank"
       \/ pc[l] = "zremrangebyrank" /\ puts' = puts

\* C11: a loop whose set_price fails goes on to the health update and the
\* sleep, evaluates the loop condition again, begins a new tick when the flag
\* is still set, and a tick that aggregates a reading calls set_price with it.
C11_PutErrorKeepsLoop ==
    [][\A l \in Loops :
          /\ PutFailedStep(l) => pc'[l] = "update_health"
          /\ (StepOf(l) /\ pc[l] = "update_health") => pc'[l] = "sleep"
          /\ (StepOf(l) /\ pc[l] = "sleep") => pc'[l] = "check"
          /\ (StepOf(l) /\ pc[l] = "check" /\ is_running) => pc'[l] = "fetch_pyth"
          /\ (StepOf(l) /\ pc[l] = "fetch_switchboard" /\ result'[l].ok) =>
                /\ pc'[l] = "set_ex"
                /\ CachedValue(l)' = to_string(result'[l].value)]_vars

\* the second tick of a loop is about to write after the set_price of its
\* first tick failed
C11_Witness ==
    \E l \in Loops :
       /\ pc[l] = "set_ex"
       /\ ticks = 2
       /\ SpawnedLoops(l[2]) = {l}
       /\ health_status[l[2]].successful_requests = 1
       /\ puts[l[2]] = 0

\* C20: every reading that enters an aggregation of the polling loop is at
\* most max_staleness seconds old.
C20_NoStaleContribution ==
    [][\A l \in Loops :
          (StepOf(l) /\ pc[l] = "fetch_switchboard" /\ result'[l].ok) =>
             \A i \in 1..Len(prices'[l]) :
                now - prices'[l][i].timestamp <= max_staleness(l[2])]_vars

\* a client call has just returned: last_op' describes it
Returned(op) == nops' # nops /\ last_op'.op = op

\* C12: a get after a set_price that returned Ok yields the reading that was
\* put, equal in every field, and keeps yielding it while no call writes the
\* key and the entry has not expired; when the reading put has a larger
\* timestamp than the one cached, the timestamp read does not decrease.
C12_PutVisibleToGet ==
    [][\A s \in Keys :
          /\ (Returned("set_price") /\ last_op'.ok /\ last_op'.symbol = s) =>
                /\ get_price(s)' = Ok(last_op'.price_data)
                /\ (/\ get_price(s).ok
                    /\ last_op'.price_data.timestamp > get_price(s).value.timestamp)
                      => get_price(s)'.value.timestamp >= get_price(s).value.timestamp
          /\ (nops' = nops /\ get_price(s)'.ok) => get_price(s)' = get_price(s)]_vars

\* a reading put over another one is read back, with every field of its own
C12_Witness ==
    /\ nops = 2
    /\ last_op.op = "set_price"
    /\ last_op.ok
    /\ Len(history_key[last_op.symbol]) = 2
    /\ get_price(last_op.symbol) = Ok(last_op.price_data)
    /\ last_op.price_data.symbol # ""

\* C13: when the last call on the cache is a set_price that returned Ok, get
\* returns its reading while fewer than cache_ttl seconds have passed since
\* that call and None once more than cache_ttl seconds have passed; the
\* time counts from the last set_price, not from an earlier one.
C13_TtlFromLastPut ==
    (last_op.op = "set_price" /\ last_op.ok) =>
       /\ now - last_op.at < cache_ttl => get_price(last_op.symbol) = Ok(last_op.price_data)
       /\ now - last_op.at > cache_ttl => ~get_price(last_op.symbol).ok

\* the key was set, set again just before it expired, and is still readable
\* more than cache_ttl seconds after the first set
C13_Witness ==
    /\ last_op.op = "set_price"
    /\ last_op.ok
    /\ nops = 2
    /\ puts[last_op.symbol] = 2
    /\ last_op.at = NowInit + cache_ttl - 1
    /\ now = last_op.at + cache_ttl - 1
    /\ get_price(last_op.symbol).ok

\* the entries of a sorted set
Entries(zset) == {zset[i] : i \in 1..Len(zset)}

\* C14: after a set_price that returned Ok, history:<symbol> holds the
\* entries it held plus the new one, less the ones with the lowest
\* timestamps beyond 1000: at most 1000 entries, in timestamp order, and no
\* dropped entry is newer than a kept one.
C14_HistoryKeepsNewest ==
    [][\A s \in Keys :
          (Returned("set_price") /\ last_op'.ok /\ last_op'.symbol = s) =>
             LET new == [member |-> to_string(last_op'.price_data),
                         score |-> last_op'.price_data.timestamp]
                 all == {e \in Entries(history_key[s]) : e.member # new.member} \cup {new}
                 kept == Entries(history_key'[s])
             IN  /\ Len(history_key'[s]) <= HistoryCap
                 /\ kept \subseteq all
                 /\ Cardinality(kept) = Len(history_key'[s])
                 /\ Len(history_key'[s])
                       = (IF Cardinality(all) < HistoryCap THEN Cardinality(all) ELSE HistoryCap)
                 /\ \A x \in all \ kept : \A y \in kept : x.score <= y.score
                 /\ \A i \in 1..(Len(history_key'[s]) - 1) :
                       history_key'[s][i].score <= history_key'[s][i + 1].score]_vars

\* a full history took a newer reading and lost its oldest entry
C14_Witness ==
    /\ last_op.op = "set_price"
    /\ last_op.ok
    /\ nops = 1
    /\ Len(history_key[last_op.symbol]) = HistoryCap
    /\ history_key[last_op.symbol][1].score = 2
    /\ history_key[last_op.symbol][HistoryCap].score = last_op.price_data.timestamp

\* C15: get_price_history returns readings newest first and never more than
\* min(limit, 1000) of them, for every limit from 0 up.
C15_HistoryNewestFirstCapped ==
    \A s \in Keys : \A limit \in 0..MaxLimit :
       LET h == get_price_history(s, limit)
       IN  /\ Len(h) <= (IF limit < HistoryCap THEN limit ELSE HistoryCap)
           /\ \A i \in 1..(Len(h) - 1) : h[i].timestamp >= h[i + 1].timestamp

\* C16: a set_price that repeats the set_price before it (same symbol, same
\* reading, both Ok) leaves the value of price:<s> and all of history:<s> as
\* they were, and the other keys too; the entry expires as after one
\* set_price made now.
C16_PutTwiceIsPutOnce ==
    [][(/\ Returned("set_price") /\ last_op'.ok
        /\ last_op.op = "set_price" /\ last_op.ok
        /\ last_op.symbol = last_op'.symbol
        /\ last_op.price_data = last_op'.price_data) =>
          /\ price_key'[last_op.symbol].value = price_key[last_op.symbol].value
          /\ price_key'[last_op.symbol] =
                set_price(NoEntry, <<>>, last_op.price_data, now, "none").price
          /\ history_key' = history_key
          /\ \A s \in Keys \ {last_op.symbol} : price_key'[s] = price_key[s]
          /\ now = last_op.at => price_key' = price_key]_vars

\* the same reading has been put twice in a row on one symbol
C16_Witness ==
    /\ last_op.op = "set_price"
    /\ last_op.ok
    /\ puts[last_op.symbol] = 2
    /\ Len(history_key[last_op.symbol]) = 1
    /\ get_price(last_op.symbol) = Ok(last_op.price_data)

\* set_price called for each pair of a batch, in order, all commands Ok
RECURSIVE set_price_each(_, _, _, _)
set_price_each(entries, histories, pairs, t) ==
    IF pairs = <<>> THEN [price |-> entries, history |-> histories]
    ELSE LET s == Head(pairs)[1]
             res == set_price(entries[s], histories[s], Head(pairs)[2], t, "none")
         IN  set_price_each([entries EXCEPT ![s] = res.price],
                            [histories EXCEPT ![s] = res.history], Tail(pairs), t)

\* C17: after set_multiple_prices(pairs) has returned Ok, price:<symbol>,
\* history:<symbol> and the publications are what set_price for each pair in
\* order would have left.
C17_BatchIsEachPut ==
    [][(Returned("set_multiple_prices") /\ last_op'.ok) =>
          LET each == set_price_each(price_key, history_key, last_op'.prices, now)
          IN  /\ price_key' = each.price
              /\ history_key' = each.history
              /\ published' = published]_vars

\* the cache read of a get_current_price call returned a reading that is at
\* most FreshnessSecs old
CacheHit(call) ==
    /\ call.cached.ok
    /\ call.at - call.cached.value.timestamp <= FreshnessSecs

\* C18: for a configured symbol, get_current_price returns the cached reading
\* without a fetch exactly when the cache read yields a reading at most 5 s
\* old; in every other case it makes one fetch-and-aggregate cycle and
\* returns the result or the error of that cycle.
C18_CachedWhenFresh ==
    [][(Returned("get_current_price") /\ last_op'.symbol \in Symbols) =>
          /\ last_op'.cached \in {get_price(last_op'.symbol), Err("redis")}
          /\ CacheHit(last_op') =>
                /\ last_op'.fetches = 0
                /\ last_op'.reply = get_price(last_op'.symbol)
          /\ ~CacheHit(last_op') =>
                /\ last_op'.fetches = 1
                /\ last_op'.reply =
                      fetch_and_aggregate_price(last_op'.symbol, last_op'.pyth_price,
                                                last_op'.sb_price)]_vars

\* a reading exactly FreshnessSecs old was returned from the cache
C18_Witness ==
    /\ last_op.op = "get_current_price"
    /\ last_op.symbol \in Symbols
    /\ last_op.fetches = 0
    /\ last_op.reply.ok
    /\ last_op.at - last_op.reply.value.timestamp = FreshnessSecs

\* C19: get_current_price fails for a symbol that is not configured,
\* whatever the cache holds.
C19_UnknownSymbolFails ==
    [][(Returned("get_current_price") /\ last_op'.symbol \notin Symbols) =>
          ~last_op'.reply.ok]_vars

\* a decoder has been called: last_op holds the payload and the reply
DecoderCall(call) == call.op \in {"pyth_get_price", "switchboard_get_price"}

\* the timestamp field of the payload of a decoder call
PayloadTimestamp(call) ==
    IF call.op = "pyth_get_price" THEN call.data.timestamp ELSE call.data.latest_timestamp

\* what the decoder of a call returns for a payload at the time of the call
Decode(call, data) ==
    IF call.op = "pyth_get_price" THEN pyth_get_price(pyth_account(data), call.at)
    ELSE switchboard_get_price(switchboard_account(data), call.at)

\* the payload of a call, stamped with the time of the call
Renewed(call) ==
    IF call.op = "pyth_get_price" THEN [call.data EXCEPT !.timestamp = call.at]
    ELSE [call.data EXCEPT !.latest_timestamp = call.at]

\* C21: both decoders reject a payload whose timestamp is more than 300 s
\* old, and accept one that is 0 to 300 s old when the same payload with a
\* new timestamp is accepted (ages 299 and 300 pass, 301 does not).
C21_StalenessLimit ==
    DecoderCall(last_op) =>
       LET age == last_op.at - PayloadTimestamp(last_op)
       IN  /\ age > 300 => ~last_op.reply.ok
           /\ (age \in 0..300 /\ Decode(last_op, Renewed(last_op)).ok) => last_op.reply.ok

\* the Switchboard decoder returned a reading that is exactly 300 s old
C21_Witness ==
    /\ last_op.op = "switchboard_get_price"
    /\ last_op.at - last_op.data.latest_timestamp = 300
    /\ last_op.reply.ok
    /\ last_op.reply.value.timestamp = last_op.data.latest_timestamp

\* C22: every reading a decoder returns has a timestamp that is not later
\* than the wall time of the call.
C22_NoFutureTimestamp ==
    (DecoderCall(last_op) /\ last_op.reply.ok) =>
       last_op.reply.value.timestamp <= last_op.at

\* C23: every reading a decoder returns has an expo within [-18, 0].
C23_ExpoInRange ==
    (DecoderCall(last_op) /\ last_op.reply.ok) => last_op.reply.value.expo \in -18..0

\* 1e-4 <= price * 10^expo <= 1e7 for 0 < price < 2^31, without a power of
\* ten above 10^9
InValueRange(price, expo) ==
    /\ price >= 1
    /\ \/ expo + 4 >= 0
       \/ -expo - 4 <= 9 /\ price >= Pow10[-expo - 4]
    /\ \/ 7 - expo > 9
       \/ 7 - expo >= 0 /\ price <= Pow10[7 - expo]

\* the payload of a call with a price and an exponent that pass every range
\* check of the decoders (1 at expo 0 scaled to 8 decimals)
InRangeValue(call) ==
    IF call.op = "pyth_get_price" THEN [call.data EXCEPT !.price = 100000000, !.expo = -8]
    ELSE [call.data EXCEPT !.mantissa = 100000000, !.scale = 8,
                           !.min_response = I64(100000000),
                           !.max_response = I64(100000000)]

\* C24: every reading a decoder returns has a value price * 10^expo within
\* [1e-4, 1e7], and a payload whose value is within that range is not
\* rejected for its price, whatever its exponent.
C24_ValueInRange ==
    DecoderCall(last_op) =>
       /\ last_op.reply.ok =>
             InValueRange(last_op.reply.value.price, last_op.reply.value.expo)
       /\ (/\ Decode(last_op, InRangeValue(last_op)).ok
           /\ IF last_op.op = "pyth_get_price"
              THEN InValueRange(last_op.data.price, last_op.data.expo)
              ELSE InValueRange(last_op.data.mantissa, -last_op.data.scale))
             => last_op.reply.ok

\* C25: the Pyth decoder returns a reading only for a payload of at least 240
\* bytes with the magic 0xa1b2c3d4, a version of at least 2 and status 1; the
\* Switchboard decoder only for a payload of at least 256 bytes that begins
\* with the aggregator discriminator.
C25_StructureChecked ==
    (DecoderCall(last_op) /\ last_op.reply.ok) =>
       IF last_op.op = "pyth_get_price"
       THEN /\ last_op.data.len >= 240
            /\ last_op.data.magic = <<212, 195, 178, 161>>
            /\ last_op.data.version >= 2
            /\ last_op.data.status = 1
       ELSE /\ last_op.data.len >= 256
            /\ last_op.data.discriminator = <<217, 230, 65, 101, 201, 162, 27, 125>>

\* the Pyth decoder returned the reading of a well-formed payload
C25_Witness ==
    /\ last_op.op = "pyth_get_price"
    /\ last_op.reply.ok
    /\ last_op.data.len = 240
    /\ last_op.data.version = 2
    /\ last_op.reply.value.price = last_op.data.price
    /\ last_op.reply.value.source = "Pyth"

\* a stored value is an aggregated reading of symbol s at the output exponent
Canonical(value, s) ==
    /\ from_str(value).source = "Aggregated"
    /\ from_str(value).expo = -8
    /\ from_str(value).symbol = s

\* C28: every reading a polling loop writes to price:<symbol> or to
\* history:<symbol> has source Aggregated, expo -8 and the name of the loop's
\* symbol.
C28_LoopWritesAggregated ==
    \A s \in Keys :
       /\ price_key[s] # NoEntry => Canonical(price_key[s].value, s)
       /\ \A i \in 1..Len(history_key[s]) : Canonical(history_key[s][i].member, s)

\* a tick that aggregated the readings of both sources has written its result
C28_Witness ==
    \E l \in Loops :
       /\ pc[l] = "update_health"
       /\ Len(prices[l]) = 2
       /\ result[l].ok
       /\ puts[l[2]] = 1
       /\ price_key[l[2]].value = to_string(result[l].value)
       /\ Len(history_key[l[2]]) = 1

\* C29: the health update of a failed tick leaves the error of that failure
\* in last_error, the update of a successful tick leaves None.
C29_LastErrorRecorded ==
    [][\A l \in Loops :
          (pc[l] = "update_health" /\ StepOf(l)) =>
             health_status'[l[2]].last_error
                = (IF result[l].ok THEN "None" ELSE result[l].err)]_vars

\* C30: a get_current_price call changes neither price:<symbol> nor
\* history:<symbol> nor the channel, whether it answers from the cache or
\* fetches while an entry exists; every change of these keys is made by the
\* writer's set_price.
C30_ReadPathWritesNothing ==
    [][/\ Returned("get_current_price") =>
             /\ price_key' = price_key
             /\ history_key' = history_key
             /\ published' = published
             /\ puts' = puts
       /\ (price_key' # price_key \/ history_key' # history_key) =>
             Returned("set_price")]_vars

\* a call found an entry that was no longer fresh, fetched, and the entry is
\* still the one it found
C30_Witness ==
    /\ last_op.op = "get_current_price"
    /\ last_op.fetches = 1
    /\ last_op.reply.ok
    /\ last_op.cached.ok
    /\ last_op.at = now
    /\ get_price(last_op.symbol) = last_op.cached
    /\ last_op.reply # last_op.cached

\* the last call was aggregate_prices and it returned an aggregate
Aggregated == last_op.op = "aggregate_prices" /\ last_op.reply.ok

\* C26: the timestamp of every aggregate is the largest timestamp among the
\* readings that the outlier filter kept; a reading removed as an outlier
\* does not determine it
C26_TimestampOfSurvivors ==
    Aggregated =>
        LET kept == filtered_prices(last_op.prices).value
        IN  last_op.reply.value.timestamp =
                MaxOf({kept[i].timestamp : i \in 1..Len(kept)})

\* a number of a reading at exponent expo rescaled to the aggregator's
\* output exponent
Rescaled(x, expo) ==
    IF expo >= OutputExpo THEN x * Pow10[expo - OutputExpo]
    ELSE x \div Pow10[OutputExpo - expo]

\* C27: the aggregate of exactly one reading has the price and the confidence
\* of that reading rescaled to expo = -8, and its timestamp
C27_SingleReadingRescaled ==
    (Aggregated /\ Len(last_op.prices) = 1) =>
        LET p == last_op.prices[1]
        IN  /\ last_op.reply.value.price = Rescaled(p.price, p.expo)
            /\ last_op.reply.value.confidence = Rescaled(p.confidence, p.expo)
            /\ last_op.reply.value.timestamp = p.timestamp

\* C36: in every state reached from the default record by update calls,
\* is_healthy is false if and only if consecutive_failures >= 3.
C36_UnhealthyIffThreeFailures ==
    ~health.is_healthy <=> health.consecutive_failures >= UnhealthyThreshold

\* a success, then the third failure in a row has just made the record unhealthy
C36_Witness ==
    /\ calls = <<TRUE, FALSE, FALSE, FALSE>>
    /\ ~health.is_healthy
    /\ health.consecutive_failures = 3

\* C37: successful_requests <= total_requests, consecutive_failures <=
\* total_requests - successful_requests, and total_requests is the number of
\* update calls made (each call adds exactly 1).
C37_CountersConsistent ==
    /\ health.successful_requests <= health.total_requests
    /\ health.consecutive_failures <= Failures(health)
    /\ health.total_requests = Len(calls)

\* a failure, a success and a failure: the counters differ from one another
C37_Witness ==
    /\ calls = <<FALSE, TRUE, FALSE>>
    /\ health.total_requests = 3
    /\ health.successful_requests = 1
    /\ health.consecutive_failures = 1

\* the k-th smallest of the integers xs
KthSmallest(xs, k) ==
    CHOOSE x \in {xs[i] : i \in 1..Len(xs)} :
        /\ Cardinality({i \in 1..Len(xs) : xs[i] < x}) < k
        /\ k <= Cardinality({i \in 1..Len(xs) : xs[i] <= x})

\* twice the median of the integers xs
TwiceMedian(xs) ==
    IF Len(xs) % 2 = 0
    THEN KthSmallest(xs, Len(xs) \div 2) + KthSmallest(xs, Len(xs) \div 2 + 1)
    ELSE 2 * KthSmallest(xs, (Len(xs) + 1) \div 2)

\* the positions of the readings whose modified z-score
\* 0.6745 * |v - median| / MAD is at most 2.5, in exact arithmetic on the
\* values in units of 10^-8: with d = 4 |v - median| and m = 4 MAD, those
\* with 1349 d <= 5000 m; all positions when MAD = 0
InlierPositions(readings) ==
    LET n == Len(readings)
        v == [i \in 1..n |-> Rescaled(readings[i].price, readings[i].expo)]
        med2 == TwiceMedian(v)
        dev2 == [i \in 1..n |-> Abs(2 * v[i] - med2)]
        mad4 == TwiceMedian(dev2)
        Inlier(i) == mad4 = 0 \/ 1349 * 2 * dev2[i] <= 5000 * mad4
    IN  SelectSeq([i \in 1..n |-> i], Inlier)

CalledFilter == last_op.op = "filter_outliers"

\* C31: the outlier filter returns the input unchanged when it has 2 or fewer
\* readings; with more it returns exactly the readings whose modified z-score
\* is <= 2.5 (all of them when MAD = 0), in input order; of three clustered
\* values and one far value it removes exactly the far one.
C31_KeepsInliersInOrder ==
    CalledFilter =>
        LET input == last_op.prices
            kept == InlierPositions(input)
        IN  /\ Len(input) <= 2 => last_op.reply = Ok(input)
            /\ Len(input) > 2 =>
                  last_op.reply = Ok([k \in 1..Len(kept) |-> input[kept[k]]])
            /\ (Len(input) = 4 /\ \E i \in 1..4 : input[i].price = 100000) =>
                  /\ last_op.reply.ok
                  /\ Len(last_op.reply.value) = 3
                  /\ \A k \in 1..3 : last_op.reply.value[k].price < 100000

\* the far value came second of the four and was the one removed
C31_Witness ==
    /\ CalledFilter
    /\ Len(last_op.prices) = 4
    /\ last_op.prices[2].price = 100000
    /\ last_op.reply = Ok(<<last_op.prices[1], last_op.prices[3], last_op.prices[4]>>)

\* C39: of more than 2 readings the outlier filter keeps at least one, so it
\* never fails with "All prices were filtered as outliers".
C39_FilterKeepsOne ==
    (CalledFilter /\ Len(last_op.prices) > 2) =>
        last_op.reply.ok /\ Len(last_op.reply.value) >= 1

\* the filter removed one of three readings and kept the two near the median
C39_Witness ==
    /\ CalledFilter
    /\ Len(last_op.prices) = 3
    /\ last_op.reply.ok
    /\ Len(last_op.reply.value) = 2

\* C40: for readings with price > 0 the price of the aggregate lies between
\* the smallest and the largest value (in units of 10^-8) of the readings
\* that the outlier filter kept.
C40_WithinSurvivorRange ==
    (Aggregated /\ \A i \in 1..Len(last_op.prices) : last_op.prices[i].price > 0) =>
        LET kept == filtered_prices(last_op.prices).value
            values == {Rescaled(kept[i].price, kept[i].expo) : i \in 1..Len(kept)}
        IN  /\ \E v \in values : v <= last_op.reply.value.price
            /\ \E v \in values : last_op.reply.value.price <= v

\* the digits of a u64 that is an integer of the model or already its digits
Digits(x) == IF x \in Int THEN BNat[x] ELSE x

\* |max_response - min_response| / 2 in exact arithmetic on the numbers that
\* the bytes lo and hi stand for; it is below 2^63, so nothing saturates
HalfSpread(lo, hi) ==
    LET negative(a) == ~BLess(a, BShl(<<1>>, 63))
        magnitude(a) == IF negative(a) THEN BSub(BShl(<<1>>, 64), a) ELSE a
        spread == IF negative(lo) # negative(hi) THEN BAdd(magnitude(lo), magnitude(hi))
                  ELSE IF BLess(magnitude(lo), magnitude(hi))
                       THEN BSub(magnitude(hi), magnitude(lo))
                       ELSE BSub(magnitude(lo), magnitude(hi))
    IN  BShr(spread, 1)

\* C32: a payload that passes the checks of the Switchboard decoder gets a
\* reading whose confidence is |max_response - min_response| / 2, for every
\* pair of i64 responses, those whose difference is no i64 included.
C32_ConfidenceIsHalfSpread ==
    (last_op.op = "switchboard_get_price" /\ Decode(last_op, last_op.data).ok) =>
        /\ last_op.reply.ok
        /\ Digits(last_op.reply.value.confidence)
              = HalfSpread(last_op.data.min_response, last_op.data.max_response)

\* the positions of the readings whose value differs from the reference h by
\* more than a tenth of h, in exact arithmetic on the prices in units of
\* 10^-2 (prices at 0 to 2 decimals, h a whole number)
FarFromReference(readings, h) ==
    SelectSeq([i \in 1..Len(readings) |-> i],
              LAMBDA i : 10 * Abs(readings[i].price * Pow10[readings[i].expo + 2] - 100 * h)
                           > 100 * h)

\* C33: detect_manipulation returns exactly one FlashCrash alert, with the
\* source of the reading and its deviation |v - h| / h, for each reading whose
\* value differs from the reference h by more than 10% of h, in the order of
\* the readings, and none for a reading that differs by 10% or less.  (The
\* deviation is compared with the f64 nearest to the exact quotient where the
\* value of the reading is a whole number, which an f64 holds exactly.)
C33_OneFlashCrashPerDeviation ==
    last_op.op = "detect_manipulation" =>
        LET input == last_op.prices
            far == FarFromReference(input, 50000)
            flash == SelectSeq(last_op.reply, LAMBDA a : a.alert_type = "FlashCrash")
        IN  /\ last_op.historical_avg = FInt(50000)
            /\ Len(flash) = Len(far)
            /\ \A k \in 1..Len(far) :
                  /\ flash[k].source = input[far[k]].source
                  /\ input[far[k]].price % Pow10[-input[far[k]].expo] = 0 =>
                        flash[k].deviation
                          = FLit(Abs(input[far[k]].price * Pow10[input[far[k]].expo + 2]
                                       - 5000000),
                                 5000000)

\* of a reading 20% below the reference and one exactly 10% below it, the
\* first got the only FlashCrash alert, with deviation 0.2
C33_Witness ==
    /\ last_op.op = "detect_manipulation"
    /\ Len(last_op.prices) = 2
    /\ last_op.prices[1].price = 40000
    /\ last_op.prices[2].price = 45000
    /\ Len(last_op.reply) = 1
    /\ last_op.reply[1].alert_type = "FlashCrash"
    /\ last_op.reply[1].source = "Pyth"
    /\ last_op.reply[1].deviation = FLit(2, 10)

\* C34: validate_price_consensus succeeds, with the median of the prices,
\* exactly when there are at least 2 prices and each differs from the median
\* by at most 1% of it; it fails with the deviation error when a price differs
\* by more, and with insufficient sources for fewer than 2 prices.  (The
\* median of an even number of prices is returned without its half; the value
\* returned is a u64, so it is no median that is below 0.)
C34_ConsensusWithinOnePercent ==
    last_op.op = "validate_price_consensus" =>
        LET xs == [i \in 1..Len(last_op.prices) |-> last_op.prices[i].price]
            agree == \A i \in 1..Len(xs) :
                         100 * Abs(2 * xs[i] - TwiceMedian(xs)) <= Abs(TwiceMedian(xs))
        IN  /\ Len(xs) < 2 => last_op.reply = Err("InsufficientSources")
            /\ (Len(xs) >= 2 /\ ~agree) => last_op.reply = Err("PriceDeviationTooHigh")
            /\ (Len(xs) >= 2 /\ agree) =>
                  /\ last_op.reply.ok
                  /\ TwiceMedian(xs) >= 0
                  /\ 2 * last_op.reply.value \in {TwiceMedian(xs), TwiceMedian(xs) - 1}

\* the same for the calls whose prices are all above 0
C34_PositiveOnly ==
    (last_op.op = "validate_price_consensus"
        /\ \A i \in 1..Len(last_op.prices) : last_op.prices[i].price > 0)
    => C34_ConsensusWithinOnePercent

\* C35: a subscriber that fell behind by more than the channel holds, and
\* whose client has not closed, loses only the oldest messages: once it has
\* nothing left to read, every message still in the channel has been written
\* to its socket; and a send with a receiver present does not fail.
C35_SlowSubscriberKeepsReceiving ==
    /\ \A c \in Connections :
          LET conn == connection[c]
              reading == conn.broadcast_task = "running" /\ conn.next < Len(channel)
          IN  (conn.lagged /\ conn.client_task = "running" /\ ~reading) =>
                  \A p \in 1..Len(channel) :
                      p > Len(channel) - ChannelCapacity =>
                          \E k \in 1..Len(conn.delivered) : conn.delivered[k] = channel[p]
    /\ (last_op.op = "broadcast_price_update" /\ last_op.receivers > 0) =>
          last_op.reply.ok

\* C38: with the loops of several symbols, and several loops of one symbol,
\* running at once no health update is lost: a step in which loops of a symbol
\* complete a tick adds exactly their number to the symbol's total_requests,
\* and the record of a symbol no loop of which completes a tick in the step is
\* unchanged; total_requests starts at 0, so it is the number of ticks
\* completed for the symbol.
C38_NoLostHealthUpdate ==
    [][\A s \in Symbols :
          LET completing == {l \in Loops : /\ l[2] = s
                                           /\ pc[l] = "update_health"
                                           /\ pc'[l] = "sleep"}
          IN  /\ health_status'[s].total_requests
                    = health_status[s].total_requests + Cardinality(completing)
              /\ completing = {} => health_status'[s] = health_status[s]]_vars

\* a loop of each symbol has completed a tick while a loop was in a tick
C38_Witness ==
    /\ health_status["BTC/USD"].total_requests = 1
    /\ health_status["ETH/USD"].total_requests = 1

====
